---- MODULE Spec2Model ----
(***************************************************************************)
(* pbp-tunnel: the server's port allocator (assignPort), the per-channel   *)
(* forward session (ForwardServer.handleChannel) and the SSH connection    *)
(* handler (ForwardServer.handleSSHConnection) of                          *)
(* src/internal/server/server.go, with ServerParameters.Validate of        *)
(* src/internal/config/constants.go.                                       *)
(*                                                                         *)
(* The client's Run, runSession and handleForward of the client package    *)
(* and ClientParameters.Validate are modelled with it, as are the frames   *)
(* of the handshake and the address matcher isAllowed.                     *)
(*                                                                         *)
(* The specifications share the variables:                                 *)
(*   Spec / FairSpec  the running server: SSH connections, their control   *)
(*                    channels, forward sessions and bridges;              *)
(*   WorkerSpec       concurrent callers of assignPort on one map and one  *)
(*                    mutex, as in TestAssignPort_ConcurrentSafety;        *)
(*   AllocSpec        one caller of assignPort, call after call, on every  *)
(*                    range and reservation set of the bounds;             *)
(*   ClientSpec / ClientFairSpec                                           *)
(*                    the client's Run against a scripted server;          *)
(*   HandshakeSpec    one client and the server's handshake, byte by byte; *)
(*   MatchSpec        isAllowed, call by call;                             *)
(*   BridgeSpec / BridgeFairSpec                                           *)
(*                    one session in its accept loop with the bridges of   *)
(*                    server and client;                                   *)
(*   RunSpec / RunFairSpec                                                 *)
(*                    the accept loop of Run with a listener that fails;   *)
(*   SessionSpec      one session from the client's dial to its bridges;   *)
(*   HsCallSpec       processHandshake called on a stream of bytes;        *)
(*   ServeSpec        one served session, bridge after bridge, until it    *)
(*                    is ended;                                            *)
(*   HandlerSpec      the client's handler of forwarded channels.          *)
(***************************************************************************)
EXTENDS Integers, Sequences, FiniteSets, Bags, TLC

(* ------------------------------ bounds -------------------------------- *)

\* SSH connections the server accepts (callers of assignPort in WorkerSpec).
NumConns == 2

\* Control channels the SSH connections open, all together.
MaxChannels == 2

\* Public TCP connections the forward sessions in progress see, all together.
MaxBridges == 1

\* The ports of a server range, minus one.
ServerWidth == 0

\* The ports of the widest range assignPort is called with directly, minus two.
MaxWidth == 1

(* ------------------------- program constants -------------------------- *)

ErrSuccess == 0
ErrPortUnavailable == 1
ErrIPNotAllowed == 2
ErrPortOutOfRange == 3
ErrInternal == 4

\* A uint32 as bit 31 (hi) and the low 31 bits (lo): TLC's integers end at 2^31 - 1.
U32(hi, lo) == [hi |-> hi, lo |-> lo]

\* uint32(n) for 0 <= n < 2^31.
ToU32(n) == U32(0, n)

\* 0x80000000
ErrMask == U32(1, 0)

\* The largest TCP port, as Validate bounds the range with it.
MaxPortNumber == 65535

Conns == 1..NumConns

\* a | b on the low 31 bits.
RECURSIVE BitOr31(_, _)
BitOr31(a, b) ==
    IF a = 0 THEN b
    ELSE IF b = 0 THEN a
    ELSE (IF a % 2 = 1 \/ b % 2 = 1 THEN 1 ELSE 0) + 2 * BitOr31(a \div 2, b \div 2)

\* Mutant: the error code alone, without the mask.
BitOrDropsMask(a, b) == ToU32(b)

\* a | b on uint32 values, b an error code.
BitOr(a, b) ==
    U32(IF a.hi = 1 \/ ToU32(b).hi = 1 THEN 1 ELSE 0, BitOr31(a.lo, ToU32(b).lo))

\* The mask of a successful assignPort: uint32 0.
NoMask == ToU32(0)

(* --------------------------- the frame codec -------------------------- *)

\* binary.BigEndian.PutUint32(hb[:], v): the four bytes of v, high byte first.
PutUint32(v) ==
    << v.hi * 128 + v.lo \div 16777216,
       (v.lo \div 65536) % 256,
       (v.lo \div 256) % 256,
       v.lo % 256 >>

\* binary.BigEndian.Uint32(hb[:]): the value of four bytes, high byte first.
Uint32(b) ==
    U32(b[1] \div 128, (b[1] % 128) * 16777216 + b[2] * 65536 + b[3] * 256 + b[4])

\* The first n elements of a sequence, and what follows them.
Take(q, n) == SubSeq(q, 1, n)
Drop(q, n) == SubSeq(q, n + 1, Len(q))

(* ------------------------------ strings ------------------------------- *)

\* A Go string is the sequence of its characters; the characters of the
\* model are the decimal digits, '.', '/' and letters that are no hex digits.
Digits == <<"0", "1", "2", "3", "4", "5", "6", "7", "8", "9">>

IsDigit(ch) == \E i \in 1..10 : Digits[i] = ch

\* int(ch - '0')
DigitVal(ch) == (CHOOSE i \in 1..10 : Digits[i] = ch) - 1

\* strings.Contains(s, "/")
ContainsSlash(s) == \E i \in 1..Len(s) : s[i] = "/"

\* The byte of a character on the wire and back: the position in the
\* alphabet stands for the code.
Alphabet == Digits \o <<".", "/", "h", "o", "s", "t">>

ByteOf(ch) == CHOOSE i \in 1..Len(Alphabet) : Alphabet[i] = ch
CharOf(b) == Alphabet[b]

\* []byte(ip) and string(buf)
Bytes(s) == [i \in 1..Len(s) |-> ByteOf(s[i])]
String(buf) == [i \in 1..Len(buf) |-> CharOf(buf[i])]

(* ---------------------- net.ParseIP, net.ParseCIDR -------------------- *)

NoIP == <<>>

\* The scan of netip's IPv4 parser from character i on: pos fields are
\* complete in fields, val and digLen belong to the field being read. The
\* result is the four octets, or NoIP for any error.
RECURSIVE ParseIPv4Fields(_, _, _, _, _, _)
ParseIPv4Fields(in, i, pos, val, digLen, fields) ==
    IF i > Len(in)
    THEN IF pos < 3 THEN NoIP ELSE Append(fields, val)
    ELSE IF IsDigit(in[i])
    THEN IF digLen = 1 /\ val = 0 THEN NoIP
         ELSE LET v == val * 10 + DigitVal(in[i])
              IN IF v > 255 THEN NoIP
                 ELSE ParseIPv4Fields(in, i + 1, pos, v, digLen + 1, fields)
    ELSE IF in[i] = "."
    THEN IF i = 1 \/ i = Len(in) \/ in[i - 1] = "." THEN NoIP
         ELSE IF pos = 3 THEN NoIP
         ELSE ParseIPv4Fields(in, i + 1, pos + 1, 0, 0, Append(fields, val))
    ELSE NoIP

\* net.ParseIP(s): nil (NoIP) unless s is a dotted quad. Without a '.' the
\* text is no address.
ParseIP(s) ==
    IF \E i \in 1..Len(s) : s[i] = "."
    THEN ParseIPv4Fields(s, 1, 0, 0, 0, <<>>)
    ELSE NoIP

\* The index of the first '/' of s.
SlashIndex(s) == CHOOSE i \in 1..Len(s) : s[i] = "/" /\ \A j \in 1..(i - 1) : s[j] # "/"

\* dtoi: the number the leading digits of s spell, with the count of digits
\* read; ok is FALSE for no digit and for a number that grows too large.
RECURSIVE Dtoi(_, _, _)
Dtoi(s, i, n) ==
    IF i <= Len(s) /\ IsDigit(s[i])
    THEN LET v == n * 10 + DigitVal(s[i])
         IN IF v >= 16777215 THEN [n |-> 16777215, i |-> i - 1, ok |-> FALSE]
            ELSE Dtoi(s, i + 1, v)
    ELSE IF i = 1 THEN [n |-> 0, i |-> 0, ok |-> FALSE]
    ELSE [n |-> n, i |-> i - 1, ok |-> TRUE]

RECURSIVE Pow2(_)
Pow2(n) == IF n = 0 THEN 1 ELSE 2 * Pow2(n - 1)

\* The bits of the prefix that fall into octet i (1..4).
PrefixBits(n, i) ==
    LET b == n - 8 * (i - 1) IN IF b < 0 THEN 0 ELSE IF b > 8 THEN 8 ELSE b

\* ip[i] & mask[i] for a prefix of n bits.
MaskOctet(o, n, i) == o - (o % Pow2(8 - PrefixBits(n, i)))

\* IP.Mask(CIDRMask(n, 32))
MaskIP(ip, n) == [i \in 1..4 |-> MaskOctet(ip[i], n, i)]

NoCIDR == [ok |-> FALSE, ip |-> NoIP, bits |-> 0]

\* net.ParseCIDR(s): the network (its masked address and prefix length), or an
\* error: no '/', an address that does not parse, a prefix length that is no
\* number or exceeds 32.
ParseCIDR(s) ==
    IF ~ContainsSlash(s) THEN NoCIDR
    ELSE LET k == SlashIndex(s)
             addr == ParseIP(Take(s, k - 1))
             mask == Drop(s, k)
             d == Dtoi(mask, 1, 0)
         IN IF addr = NoIP THEN NoCIDR
            ELSE IF ~d.ok \/ d.i # Len(mask) \/ d.n < 0 \/ d.n > 32 THEN NoCIDR
            ELSE [ok |-> TRUE, ip |-> MaskIP(addr, d.n), bits |-> d.n]

\* (*IPNet).Contains(ip): FALSE for a nil ip, else the comparison of the
\* masked octets.
Contains(cidr, ip) ==
    IF Len(ip) # Len(cidr.ip) THEN FALSE
    ELSE \A i \in 1..4 : MaskOctet(cidr.ip[i], cidr.bits, i) = MaskOctet(ip[i], cidr.bits, i)

(* ------------------------------ isAllowed ----------------------------- *)

\* The body of the loop of isAllowed for entry a: a CIDR entry that parses
\* and contains the parsed candidate, or a literal entry equal to the text.
EntryMatches(a, ip, parsed) ==
    IF ContainsSlash(a)
    THEN LET cidr == ParseCIDR(a) IN cidr.ok /\ Contains(cidr, parsed)
    ELSE a = ip

\* Mutant: only the first entry is looked at.
AllowedFromFirstOnly(ip, parsed, allowed, i) ==
    i <= Len(allowed) /\ EntryMatches(allowed[i], ip, parsed)

\* for _, a := range allowed, from entry i on: TRUE at the first entry that
\* matches, FALSE when the list runs out.
RECURSIVE AllowedFrom(_, _, _, _)
AllowedFrom(ip, parsed, allowed, i) ==
    IF i > Len(allowed) THEN FALSE
    ELSE IF EntryMatches(allowed[i], ip, parsed) THEN TRUE
    ELSE AllowedFrom(ip, parsed, allowed, i + 1)

\* Mutant: every address is allowed.
isAllowedAlways(ip, allowed) == TRUE

\* isAllowed(ip, allowed)
isAllowed(ip, allowed) ==
    IF Len(allowed) = 0 THEN TRUE
    ELSE AllowedFrom(ip, ParseIP(ip), allowed, 1)

(* ---------------------------- the state ------------------------------- *)

VARIABLES
    srv,             \* Run: "start", "accepting", "exit"; "test" in the assignPort harness
    portRangeStart,  \* ForwardServer.portRangeStart
    portRangeEnd,    \* ForwardServer.portRangeEnd
    forwards,        \* ForwardServer.forwards: the keys of the map
    lock,            \* ForwardServer.lock: 0 when free, else the holder
    cs,              \* per connection: the goroutine's position and locals
    bridges,         \* per connection: its public TCP connections and their bridges
    grants,          \* history: the bag of ports assignPort returned and nobody released
    allowedIPs,      \* ForwardServer.allowedIPs
    cl,              \* the client: Run's position and locals, and its ClientSession
    wire,            \* the control channel: the bytes in flight in each direction
    fwd,             \* the client's handleForward calls and the local service
    m                \* a call of isAllowed: its arguments, its position and its result

vars == <<srv, portRangeStart, portRangeEnd, forwards, lock, cs, bridges, grants,
          allowedIPs, cl, wire, fwd, m>>

\* What the server's allocator and sessions never write.
restVars == <<allowedIPs, cl, wire, fwd, m>>

\* The server's allocator, connections and bridges.
serverVars == <<srv, portRangeStart, portRangeEnd, forwards, lock, cs, bridges, grants>>

NoListener == [port |-> -1, open |-> FALSE]

\* The locals of handleSSHConnection and handleChannel before anything ran.
InitConn ==
    [ pc        |-> "none",
      sshAlive  |-> FALSE,      \* the SSH connection is up (sshConn.Wait() has not returned)
      admitted  |-> FALSE,      \* isAllowed(host, s.allowedIPs) or the allow-list is empty
      chanCount |-> 0,          \* channels taken from chans so far
      reqPort   |-> 0,
      port      |-> 0,
      mask      |-> NoMask,
      cand      |-> 0,          \* the port the critical section decided on
      ln        |-> NoListener,
      done      |-> FALSE,      \* the done channel is closed
      watcher   |-> "none",     \* the goroutine of lines 188-192
      doWaitForConnection |-> TRUE,
      reply     |-> <<>>,       \* the u32 frames written after the port request
      host      |-> <<>>,       \* the address of the SSH peer
      clientWL  |-> <<>>,       \* the whitelist read by processHandshake
      count     |-> ToU32(0),   \* processHandshake: the count frame
      \* history
      portRead  |-> FALSE,      \* the requested port was read from the channel
      pre       |-> {},         \* forwards when assignPort was called
      added     |-> {},         \* ports this call put into forwards and did not delete
      served    |-> FALSE,      \* this handleChannel call reached the accept loop
      acceptErr |-> "none",     \* the error of ln.Accept that sent the loop to RELEASE,
                                \* kept until wg.Wait() returns
      freed     |-> {} ]        \* ports this caller deleted from forwards

\* A public connection that has not been accepted, with its bridge and the
\* data channel of the bridge.
NoBridge ==
    [ st         |-> "none",
      up         |-> "idle",    \* io.Copy(ch2, c)
      down       |-> "idle",    \* io.Copy(c, ch2)
      peer       |-> "none",    \* the public peer: "idle", "sent", "halfclosed"
                                \* (it shut down its sending side), "closed"
      addr       |-> <<>>,      \* the address of the public peer
      chData     |-> FALSE,     \* bytes written to ch2 that the client has not read
      upData     |-> FALSE,     \* bytes the client wrote that io.Copy(c, ch2) has not read
      closeWrite |-> FALSE,     \* ch2.CloseWrite() was called
      chEOF      |-> FALSE,     \* the client ended its direction of the channel
      chClosed   |-> FALSE ]    \* the client closed the channel

\* A public connection after c.Close(); the data channel keeps its state.
ClosedBridge(b) ==
    [b EXCEPT !.st = "closed", !.up = "idle", !.down = "idle", !.peer = "closed"]

InitBridges == [c \in Conns |-> [k \in 1..MaxBridges |-> NoBridge]]

\* ClientParameters before any field is set.
NoParams ==
    [ Endpoint |-> "", EndpointPort |-> 0, Username |-> "", Password |-> "",
      PrivateKeyPath |-> "", LocalHost |-> "", LocalPort |-> 0, RemoteHost |-> "",
      RemotePort |-> 0, AllowedIPs |-> <<>> ]

NoError == [msg |-> "", code |-> ToU32(0)]

\* The client before Run is called.
NoClient ==
    [ pc           |-> "none",
      params       |-> NoParams,
      retry        |-> 0,
      connected    |-> FALSE,     \* Connection: the SSH connection is up
      Active       |-> FALSE,     \* ClientSession.Active of the session Run made
      AssignedPort |-> 0,
      handler      |-> FALSE,     \* the goroutine of HandleChannelOpen runs
      err          |-> NoError,   \* the error Run returned
      \* history
      failed       |-> 0,         \* failed attempts since the start or the last connection
      configs      |-> 0,         \* calls of GetClientConfig
      dials        |-> 0,         \* calls of ssh.Dial
      sleeps       |-> 0,         \* calls of time.Sleep
      reply        |-> <<>> ]     \* the port reply runSession read

\* The control channel before it is opened: its state, the bytes in flight
\* towards the server (up) and towards the client (down), and the ends that
\* were closed.
NoWire ==
    [ ch |-> "none", up |-> <<>>, down |-> <<>>, upEOF |-> FALSE, downEOF |-> FALSE,
      sent |-> 0 ]                \* history: frames the scripted server wrote

\* A handleForward call that has not started, and its local connection.
NoForward ==
    [ st       |-> "none",
      toLocal  |-> "idle",      \* io.Copy(localConn, ch)
      toServer |-> "idle",      \* io.Copy(ch, localConn)
      local    |-> "none",      \* the local service: "idle", "sent", "closed"
      readShut |-> FALSE ]      \* localConn.CloseRead() was called

InitForwards == [k \in 1..MaxBridges |-> NoForward]

\* No call of isAllowed.
NoMatch == [pc |-> "none", ip |-> <<>>, allowed |-> <<>>, result |-> FALSE]

(* ------------------- ServerParameters.Validate ------------------------ *)

\* The port-range part of Validate: TRUE when no error is returned.
Validate(start, end) ==
    /\ ~(start < 0 \/ start > MaxPortNumber)
    /\ ~(end < start \/ end > MaxPortNumber)

(* ---------------------------- assignPort ------------------------------ *)

\* Mutant: Lock() that does not wait for the holder.
MutexFreeNoWait(l) == TRUE

\* sync.Mutex: Lock() returns only when nobody holds the mutex.
MutexFree(l) == l = 0

\* Mutant: the reversed-range check left out.
InvalidRangeUnchecked(start, end) == FALSE

\* if start > end
InvalidRange(start, end) == start > end

\* Mutant: the lower comparison off by one.
OutOfRangeOffByOne(reqPort, start, end) == reqPort <= start \/ reqPort > end

\* if reqPort < start || reqPort > end
OutOfRange(reqPort, start, end) == reqPort < start \/ reqPort > end

\* _, used := forwards[p]
Used(fw, p) == p \in fw

\* Mutant: the scan run from the top of the range downwards.
FirstAvailableFromEnd(p, end, fw) ==
    IF \A q \in p..end : q \in fw THEN [found |-> FALSE, port |-> 0]
    ELSE [found |-> TRUE,
          port |-> CHOOSE q \in p..end : q \notin fw /\ \A x \in p..end : x \notin fw => x <= q]

\* for p := start; p <= end; p++ { if !used { ... return p, 0 } }: the port the
\* scan stops at, or found = FALSE when it runs off the end.
RECURSIVE FirstAvailable(_, _, _)
FirstAvailable(p, end, fw) ==
    IF p > end THEN [found |-> FALSE, port |-> 0]
    ELSE IF ~Used(fw, p) THEN [found |-> TRUE, port |-> p]
    ELSE FirstAvailable(p + 1, end, fw)

\* Mutant: the reservation is not recorded.
ReserveNothing(fw, p) == fw

\* Mutant: the next port is reserved with it.
ReserveWithNext(fw, p) == fw \cup {p, p + 1}

\* forwards[p] = struct{}{}
Reserve(fw, p) == fw \cup {p}

\* delete(s.forwards, port)
\* Mutant: the release empties the map.
DeleteEverything(fw, p) == {}

Delete(fw, p) == fw \ {p}

\* What the critical section decides from the map it reads.
Decide(reqPort, start, end, fw) ==
    IF reqPort # 0
    THEN IF Used(fw, reqPort)
         THEN [found |-> FALSE, port |-> 0]
         ELSE [found |-> TRUE, port |-> reqPort]
    ELSE FirstAvailable(start, end, fw)

\* assignPort up to and including lock.Lock(): the two early returns, else the
\* mutex is taken.
AssignEnter(c) ==
    /\ cs[c].pc = "assign"
    /\ IF InvalidRange(portRangeStart, portRangeEnd)
       THEN /\ cs' = [cs EXCEPT ![c].pc = "assigned", ![c].port = 0,
                                ![c].mask = BitOr(ErrMask, ErrPortUnavailable),
                                ![c].pre = forwards]
            /\ UNCHANGED lock
       ELSE IF cs[c].reqPort # 0 /\ OutOfRange(cs[c].reqPort, portRangeStart, portRangeEnd)
       THEN /\ cs' = [cs EXCEPT ![c].pc = "assigned", ![c].port = 0,
                                ![c].mask = BitOr(ErrMask, ErrPortOutOfRange),
                                ![c].pre = forwards]
            /\ UNCHANGED lock
       ELSE /\ MutexFree(lock)
            /\ lock' = c
            /\ cs' = [cs EXCEPT ![c].pc = "check", ![c].pre = forwards]
    /\ UNCHANGED <<srv, portRangeStart, portRangeEnd, forwards, bridges, grants, restVars>>

\* Under the lock: the lookup of reqPort, or the scan. A port in use or an
\* exhausted range returns at once (the deferred Unlock runs).
AssignCheck(c) ==
    /\ cs[c].pc = "check"
    /\ LET d == Decide(cs[c].reqPort, portRangeStart, portRangeEnd, forwards)
       IN IF d.found
          THEN /\ cs' = [cs EXCEPT ![c].pc = "store", ![c].cand = d.port]
               /\ UNCHANGED lock
          ELSE /\ cs' = [cs EXCEPT ![c].pc = "assigned", ![c].port = 0,
                                   ![c].mask = BitOr(ErrMask, ErrPortUnavailable)]
               /\ lock' = 0
    /\ UNCHANGED <<srv, portRangeStart, portRangeEnd, forwards, bridges, grants, restVars>>

\* Under the lock: forwards[p] = struct{}{}; return p, 0 (the deferred Unlock runs).
AssignStore(c) ==
    /\ cs[c].pc = "store"
    /\ forwards' = Reserve(forwards, cs[c].cand)
    /\ lock' = 0
    /\ grants' = grants (+) SetToBag({cs[c].cand})
    /\ cs' = [cs EXCEPT ![c].pc = "assigned", ![c].port = cs[c].cand, ![c].mask = NoMask,
                        ![c].added = {cs[c].cand}]
    /\ UNCHANGED <<srv, portRangeStart, portRangeEnd, bridges, restVars>>

\* s.lock.Lock() before the delete.
ReleaseLock(c) ==
    /\ cs[c].pc = "rel_lock"
    /\ MutexFree(lock)
    /\ lock' = c
    /\ cs' = [cs EXCEPT ![c].pc = "rel_del"]
    /\ UNCHANGED <<srv, portRangeStart, portRangeEnd, forwards, bridges, grants, restVars>>

\* delete(s.forwards, port); s.lock.Unlock(); the function returns.
ReleaseDelete(c) ==
    /\ cs[c].pc = "rel_del"
    /\ forwards' = Delete(forwards, cs[c].port)
    /\ lock' = 0
    /\ grants' = grants (-) SetToBag({cs[c].port})
    /\ cs' = [cs EXCEPT ![c].pc = "ret", ![c].added = cs[c].added \ {cs[c].port},
                         ![c].freed = cs[c].freed \cup {cs[c].port}]
    /\ UNCHANGED <<srv, portRangeStart, portRangeEnd, bridges, restVars>>

(* --------------------- the assignPort harness ------------------------- *)

\* The (start, end) pairs assignPort is called with: valid and reversed ranges
\* at the low end, the range [10000, 10002] and the top of the port space, and
\* a negative start (TestAssignPort_ConfigurationLimits).
HarnessRanges ==
    {<<s, e>> : s \in {-1, 0, 1, 2}, e \in 0..(2 + MaxWidth)}
    \cup {<<10000, 10002>>}
    \cup {<<MaxPortNumber - MaxWidth, MaxPortNumber>>}

\* The requests tried on a range: automatic, the range's ends and their neighbours.
Requests(start, end) ==
    {0, start - 1, start, start + 1, end, end + 1}

\* The ranges the concurrent callers share: one that holds port 0, one that
\* does not.
WorkerRanges == {<<0, MaxWidth>>, <<1, 1 + MaxWidth>>}

\* A caller between two calls.
IdleConn == [InitConn EXCEPT !.pc = "idle"]

HarnessInit(ranges) ==
    /\ srv = "test"
    /\ \E r \in ranges : portRangeStart = r[1] /\ portRangeEnd = r[2]
    /\ forwards = {}
    /\ lock = 0
    /\ cs = [c \in Conns |-> IdleConn]
    /\ bridges = InitBridges
    /\ grants = EmptyBag
    /\ allowedIPs = <<>>
    /\ cl = NoClient
    /\ wire = NoWire
    /\ fwd = InitForwards
    /\ m = NoMatch

WorkerInit == HarnessInit(WorkerRanges)

AllocInit == HarnessInit(HarnessRanges)

\* port, mask := assignPort(reqPort, start, end, forwards, &lock) is called.
Call(c) ==
    /\ cs[c].pc = "idle"
    /\ \E r \in Requests(portRangeStart, portRangeEnd) :
          cs' = [cs EXCEPT ![c] = [IdleConn EXCEPT !.pc = "assign", !.reqPort = r,
                                                   !.freed = cs[c].freed]]
    /\ UNCHANGED <<srv, portRangeStart, portRangeEnd, forwards, lock, bridges, grants, restVars>>

\* The caller has its result; it keeps the port, or goes on to release it.
Returned(c) ==
    /\ cs[c].pc = "assigned"
    /\ \E release \in BOOLEAN :
          /\ release => cs[c].mask = NoMask
          /\ cs' = [cs EXCEPT ![c] = IF release THEN [@ EXCEPT !.pc = "rel_lock"]
                                      ELSE [IdleConn EXCEPT !.freed = cs[c].freed]]
    /\ UNCHANGED <<srv, portRangeStart, portRangeEnd, forwards, lock, bridges, grants, restVars>>

\* The release is over.
Released(c) ==
    /\ cs[c].pc = "ret"
    /\ cs' = [cs EXCEPT ![c] = [IdleConn EXCEPT !.freed = cs[c].freed]]
    /\ UNCHANGED <<srv, portRangeStart, portRangeEnd, forwards, lock, bridges, grants, restVars>>

WorkerStep(c) ==
    \/ Call(c)
    \/ AssignEnter(c)
    \/ AssignCheck(c)
    \/ AssignStore(c)
    \/ Returned(c)
    \/ ReleaseLock(c)
    \/ ReleaseDelete(c)
    \/ Released(c)

WorkerNext == \E c \in Conns : WorkerStep(c)

AllocNext == WorkerStep(1)

WorkerSpec == WorkerInit /\ [][WorkerNext]_vars

AllocSpec == AllocInit /\ [][AllocNext]_vars

(* ------------------------------ Run ----------------------------------- *)

\* The (PortRangeStart, PortRangeEnd) pairs the server is started with: a range
\* that starts at 0, one that starts at 1, and a reversed and an out-of-bounds
\* one, which Validate refuses.
ServerRanges ==
    {<<0, ServerWidth>>, <<1, 1 + ServerWidth>>,
     <<1, 0>>, <<MaxPortNumber, MaxPortNumber + 1>>}

\* The requested ports a client sends on a range: automatic, the ends of the
\* range and their neighbours, as far as a uint32 holds them.
ServerRequests(start, end) ==
    {r \in {0, start - 1, start, end, end + 1} : r >= 0}

\* The ports the operating system hands out for a listen on port 0.
EphemeralPorts == {32768 + i : i \in 0..NumConns}

Init ==
    /\ srv = "start"
    /\ \E r \in ServerRanges : portRangeStart = r[1] /\ portRangeEnd = r[2]
    /\ forwards = {}
    /\ lock = 0
    /\ cs = [c \in Conns |-> InitConn]
    /\ bridges = InitBridges
    /\ grants = EmptyBag
    /\ allowedIPs = <<>>
    /\ cl = NoClient
    /\ wire = NoWire
    /\ fwd = InitForwards
    /\ m = NoMatch

\* Run, lines 66-91: Validate, then the server listens; an invalid
\* configuration makes Run return an error.
RunValidate ==
    /\ srv = "start"
    /\ srv' = IF Validate(portRangeStart, portRangeEnd) THEN "accepting" ELSE "exit"
    /\ UNCHANGED <<portRangeStart, portRangeEnd, forwards, lock, cs, bridges, grants, restVars>>

(* ----------------------- handleSSHConnection -------------------------- *)

\* The accept loop hands a TCP connection to handleSSHConnection, which runs
\* the SSH handshake and the initial IP check (lines 94-122).
AcceptSSH(c) ==
    /\ srv = "accepting"
    /\ cs[c].pc = "none"
    /\ \E handshakeOK \in BOOLEAN, allowed \in BOOLEAN :
          cs' = [cs EXCEPT ![c] =
                    IF handshakeOK /\ allowed
                    THEN [InitConn EXCEPT !.pc = "chanloop", !.sshAlive = TRUE,
                                          !.admitted = TRUE]
                    ELSE [InitConn EXCEPT !.pc = "closed", !.admitted = allowed /\ handshakeOK]]
    /\ UNCHANGED <<srv, portRangeStart, portRangeEnd, forwards, lock, bridges, grants, restVars>>

\* The SSH connection ends: the client disconnects or the network drops.
SSHTerminate(c) ==
    /\ cs[c].sshAlive
    /\ cs' = [cs EXCEPT ![c].sshAlive = FALSE]
    /\ UNCHANGED <<srv, portRangeStart, portRangeEnd, forwards, lock, bridges, grants, restVars>>

\* The channels taken from the chans of all connections so far.
RECURSIVE SumChanCount(_)
SumChanCount(n) == IF n = 0 THEN 0 ELSE cs[n].chanCount + SumChanCount(n - 1)

ChannelsOpened == SumChanCount(NumConns)

\* The locals of a fresh handleChannel call on connection c.
FreshCall(c) ==
    [InitConn EXCEPT !.pc = "handshake", !.sshAlive = cs[c].sshAlive,
                     !.admitted = cs[c].admitted, !.chanCount = cs[c].chanCount + 1]

\* for newCh := range chans, lines 124-136: a channel of another type is
\* rejected, a failed Accept is skipped, else handleChannel is called.
NextChannel(c) ==
    /\ cs[c].pc = "chanloop"
    /\ cs[c].sshAlive
    /\ ChannelsOpened < MaxChannels
    /\ \E directTcpip \in BOOLEAN, acceptOK \in BOOLEAN :
          IF directTcpip /\ acceptOK
          THEN /\ cs' = [cs EXCEPT ![c] = FreshCall(c)]
               /\ bridges' = [bridges EXCEPT ![c] = [k \in 1..MaxBridges |-> NoBridge]]
          ELSE /\ cs' = [cs EXCEPT ![c].chanCount = @ + 1]
               /\ UNCHANGED bridges
    /\ UNCHANGED <<srv, portRangeStart, portRangeEnd, forwards, lock, grants, restVars>>

\* chans is closed once the connection is gone: the loop ends and the deferred
\* sshConn.Close() and nc.Close() run.
ConnClosed(c) ==
    /\ cs[c].pc = "chanloop"
    /\ ~cs[c].sshAlive
    /\ cs' = [cs EXCEPT ![c].pc = "closed"]
    /\ UNCHANGED <<srv, portRangeStart, portRangeEnd, forwards, lock, bridges, grants, restVars>>

(* --------------------------- handleChannel ---------------------------- *)

\* The whitelist a client of the running server sends: one address.
SessionWhitelists ==
    { << <<"1", "0", ".", "0", ".", "0", ".", "1">> >> }

\* Lines 144-159: processHandshake (IP check, whitelist) and the read of the
\* requested port. A read fails when the client closes or the connection is
\* gone; a rejected IP returns after the IPNotAllowed frame.
ProcessHandshake(c) ==
    /\ cs[c].pc = "handshake"
    /\ \E outcome \in {"ok", "whitelist read error", "port read error"},
          r \in ServerRequests(portRangeStart, portRangeEnd),
          wl \in SessionWhitelists :
          /\ outcome = "ok" => cs[c].sshAlive
          /\ cs' = [cs EXCEPT ![c] =
                      IF cs[c].admitted /\ outcome = "ok"
                      THEN [@ EXCEPT !.pc = "assign", !.reqPort = r, !.portRead = TRUE,
                                     !.clientWL = wl]
                      ELSE [@ EXCEPT !.pc = "ret"]]
    /\ UNCHANGED <<srv, portRangeStart, portRangeEnd, forwards, lock, bridges, grants, restVars>>

\* Lines 163-169: a non-zero mask is written to the client and handleChannel
\* returns.
AssignResult(c) ==
    /\ cs[c].pc = "assigned"
    /\ cs' = [cs EXCEPT ![c] =
                IF cs[c].mask # NoMask
                THEN [@ EXCEPT !.pc = "ret", !.reply = Append(@, cs[c].mask)]
                ELSE [@ EXCEPT !.pc = "bind"]]
    /\ UNCHANGED <<srv, portRangeStart, portRangeEnd, forwards, lock, bridges, grants, restVars>>

\* The ports this process has a listener bound on.
BoundPorts == {cs[d].ln.port : d \in {x \in Conns : cs[x].ln.open}}

\* net.Listen on bindAddress:port: the port a successful listen binds. Port 0
\* asks the operating system for any free port.
ListenPorts(port) ==
    IF port = 0 THEN EphemeralPorts \ BoundPorts ELSE {port} \ BoundPorts

\* Lines 171-192: net.Listen. On failure (the port is bound by this or by
\* another process) ErrMask|ErrInternal is written and handleChannel returns.
\* On success the port is written to the client, the goroutine waiting for the
\* end of the SSH connection is started and the accept loop begins.
BindListener(c) ==
    /\ cs[c].pc = "bind"
    /\ \/ \E bound \in ListenPorts(cs[c].port) :
             cs' = [cs EXCEPT ![c].pc = "accept",
                              ![c].ln = [port |-> bound, open |-> TRUE],
                              ![c].reply = Append(@, ToU32(cs[c].port)),
                              ![c].watcher = "waiting",
                              ![c].served = TRUE]
       \/ cs' = [cs EXCEPT ![c].pc = "ret",
                           ![c].reply = Append(@, BitOr(ErrMask, ErrInternal))]
    /\ UNCHANGED <<srv, portRangeStart, portRangeEnd, forwards, lock, bridges, grants, restVars>>

\* Lines 188-190: sshConn.Wait() has returned; ln.Close().
WatcherCloseListener(c) ==
    /\ cs[c].watcher = "waiting"
    /\ ~cs[c].sshAlive
    /\ cs' = [cs EXCEPT ![c].watcher = "closing", ![c].ln.open = FALSE]
    /\ UNCHANGED <<srv, portRangeStart, portRangeEnd, forwards, lock, bridges, grants, restVars>>

\* Line 191: close(done).
WatcherCloseDone(c) ==
    /\ cs[c].watcher = "closing"
    /\ cs' = [cs EXCEPT ![c].watcher = "exit", ![c].done = TRUE]
    /\ UNCHANGED <<srv, portRangeStart, portRangeEnd, forwards, lock, bridges, grants, restVars>>

\* The public connections of c that have been accepted so far.
Accepted(c) == {k \in 1..MaxBridges : bridges[c][k].st # "none"}

RECURSIVE SumAccepted(_)
SumAccepted(n) == IF n = 0 THEN 0 ELSE Cardinality(Accepted(n)) + SumAccepted(n - 1)

PeersAccepted == SumAccepted(NumConns)

\* The addresses public peers connect from.
PeerAddrs ==
    { <<"1", "0", ".", "0", ".", "0", ".", "1">>,
      <<"1", "1", ".", "0", ".", "0", ".", "1">> }

\* Mutant: every peer passes.
WhitelistMatchesAny(peer, clientWL, i) == TRUE

\* Lines 217-227, from entry i on: the loop over the client's whitelist, left
\* at the first prefix that contains the peer or the first literal equal to it.
RECURSIVE WhitelistMatches(_, _, _)
WhitelistMatches(peer, clientWL, i) ==
    IF i > Len(clientWL) THEN FALSE
    ELSE LET entry == clientWL[i]
         IN IF ContainsSlash(entry)
            THEN IF ParseCIDR(entry).ok /\ Contains(ParseCIDR(entry), ParseIP(peer))
                 THEN TRUE
                 ELSE WhitelistMatches(peer, clientWL, i + 1)
            ELSE IF entry = peer THEN TRUE
            ELSE WhitelistMatches(peer, clientWL, i + 1)

\* Lines 216-227: accepted := len(clientWL) == 0, or set by the loop.
PeerAccepted(peer, clientWL) ==
    Len(clientWL) = 0 \/ WhitelistMatches(peer, clientWL, 1)

\* Mutant: the accept loop runs before the listener is bound and the reply
\* written.
AcceptPeerEarly(c) ==
    /\ cs[c].pc \in {"bind", "accept"}
    /\ PeersAccepted < MaxBridges
    /\ \E peer \in PeerAddrs :
          bridges' = [bridges EXCEPT ![c][Cardinality(Accepted(c)) + 1] =
                        IF PeerAccepted(peer, cs[c].clientWL)
                        THEN [NoBridge EXCEPT !.st = "open", !.peer = "idle", !.addr = peer]
                        ELSE [NoBridge EXCEPT !.st = "rejected", !.peer = "closed",
                                              !.addr = peer]]
    /\ UNCHANGED <<srv, portRangeStart, portRangeEnd, forwards, lock, cs, grants, restVars>>

\* Lines 197, 214-263: ln.Accept() returns a public connection; the client's
\* whitelist admits its peer, and the bridge goroutine is started, or rejects
\* it, and the connection is closed.
AcceptPeer(c) ==
    /\ cs[c].pc = "accept"
    /\ cs[c].ln.open
    /\ PeersAccepted < MaxBridges
    /\ \E peer \in PeerAddrs :
          bridges' = [bridges EXCEPT ![c][Cardinality(Accepted(c)) + 1] =
                        IF PeerAccepted(peer, cs[c].clientWL)
                        THEN [NoBridge EXCEPT !.st = "open", !.peer = "idle", !.addr = peer]
                        ELSE [NoBridge EXCEPT !.st = "rejected", !.peer = "closed",
                                              !.addr = peer]]
    /\ UNCHANGED <<srv, portRangeStart, portRangeEnd, forwards, lock, cs, grants, restVars>>

\* Lines 198-212, the listener was closed by the watcher: Accept fails with
\* "use of closed network connection". With done closed the session goes to
\* RELEASE and waits for its bridges; with done still open it does not wait.
AcceptClosed(c) ==
    /\ cs[c].pc = "accept"
    /\ ~cs[c].ln.open
    /\ cs' = [cs EXCEPT ![c] =
                IF cs[c].done
                THEN [@ EXCEPT !.pc = "wgwait"]
                ELSE [@ EXCEPT !.pc = "rel_lock", !.doWaitForConnection = FALSE]]
    /\ UNCHANGED <<srv, portRangeStart, portRangeEnd, forwards, lock, bridges, grants, restVars>>

\* Lines 198-212, Accept fails on an open listener with an error of the
\* operating system, temporary (net.Error with Temporary() true) or fatal. The
\* code does not ask which: the session goes to RELEASE and waits for its
\* bridges.
AcceptError(c) ==
    /\ cs[c].pc = "accept"
    /\ cs[c].ln.open
    /\ \E kind \in {"temporary", "fatal"} :
          cs' = [cs EXCEPT ![c].pc = "wgwait", ![c].acceptErr = kind]
    /\ UNCHANGED <<srv, portRangeStart, portRangeEnd, forwards, lock, bridges, grants, restVars>>

\* The bridge goroutines of c that have not returned.
LiveBridges(c) == {k \in 1..MaxBridges : bridges[c][k].st \in {"open", "copy"}}

\* Lines 267-269: wg.Wait() returns when every bridge goroutine is done.
WaitBridges(c) ==
    /\ cs[c].pc = "wgwait"
    /\ LiveBridges(c) = {}
    /\ cs' = [cs EXCEPT ![c].pc = "rel_lock", ![c].acceptErr = "none"]
    /\ UNCHANGED <<srv, portRangeStart, portRangeEnd, forwards, lock, bridges, grants, restVars>>

\* handleChannel returns: the deferred ln.Close() (when the listener was
\* bound) and channel.Close() run, its locals are gone, and the channel loop
\* goes on. A watcher still waiting holds only this call's listener and done
\* channel, which nothing reads any more.
HandleReturn(c) ==
    /\ cs[c].pc = "ret"
    /\ cs' = [cs EXCEPT ![c] = [InitConn EXCEPT !.pc = "chanloop",
                                                 !.sshAlive = cs[c].sshAlive,
                                                 !.admitted = cs[c].admitted,
                                                 !.chanCount = cs[c].chanCount]]
    /\ UNCHANGED <<srv, portRangeStart, portRangeEnd, forwards, lock, bridges, grants, restVars>>

(* ------------------------------ bridges ------------------------------- *)

\* Lines 239-247: sshConn.OpenChannel. It fails when the connection is gone or
\* the client refuses; then the public connection is closed and the bridge ends.
\* The client accepts "direct-tcpip" channels: the goroutine of runSession,
\* lines 173-195, has called HandleChannelOpen. Before that the SSH library
\* rejects the channel. A client that is not modelled accepts or rejects.
ClientTakesChannels == cl.pc = "none" \/ cl.handler

\* Mutant: a channel that cannot be opened closes the listener.
BridgeOpenChannelFatal(c, k) ==
    /\ bridges[c][k].st = "open"
    /\ \E ok \in BOOLEAN :
          /\ ok => (cs[c].sshAlive /\ ClientTakesChannels)
          /\ bridges' = [bridges EXCEPT ![c][k] =
                           IF ok THEN [@ EXCEPT !.st = "copy", !.up = "run", !.down = "run"]
                           ELSE ClosedBridge(@)]
          /\ cs' = IF ok THEN cs ELSE [cs EXCEPT ![c].ln.open = FALSE]
    /\ UNCHANGED <<srv, portRangeStart, portRangeEnd, forwards, lock, grants, restVars>>

BridgeOpenChannel(c, k) ==
    /\ bridges[c][k].st = "open"
    /\ \E ok \in BOOLEAN :
          /\ ok => (cs[c].sshAlive /\ ClientTakesChannels)
          /\ bridges' = [bridges EXCEPT ![c][k] =
                           IF ok THEN [@ EXCEPT !.st = "copy", !.up = "run", !.down = "run"]
                           ELSE ClosedBridge(@)]
    /\ UNCHANGED <<srv, portRangeStart, portRangeEnd, forwards, lock, cs, grants, restVars>>

\* Lines 249-254, io.Copy(ch2, c): a read of the public connection returns. Data
\* is written to the channel, and the copy ends when that write fails; end of
\* file ends the copy, and ch2.CloseWrite() follows. With nothing to read the
\* goroutine stays blocked.
CopyToClient(c, k) ==
    /\ bridges[c][k].st = "copy"
    /\ bridges[c][k].up = "run"
    /\ bridges[c][k].peer \in {"sent", "halfclosed", "closed"}
    /\ bridges' = [bridges EXCEPT ![c][k] =
                     IF @.peer = "sent" /\ cs[c].sshAlive /\ ~@.chClosed
                     THEN [@ EXCEPT !.peer = "idle", !.chData = TRUE]
                     ELSE [@ EXCEPT !.up = "done", !.closeWrite = TRUE]]
    /\ UNCHANGED <<srv, portRangeStart, portRangeEnd, forwards, lock, cs, grants, restVars>>

\* Lines 256-260, io.Copy(c, ch2): a read of the channel returns. Data is
\* written to the public connection, and the copy ends when that write fails,
\* which it can once the peer has closed; end of file, because the client ended
\* its direction or the SSH connection is gone, ends the copy.
CopyToService(c, k) ==
    /\ bridges[c][k].st = "copy"
    /\ bridges[c][k].down = "run"
    /\ ~cs[c].sshAlive \/ bridges[c][k].chEOF \/ bridges[c][k].upData
    /\ IF bridges[c][k].upData
       THEN \E ok \in BOOLEAN :
               /\ ~ok => bridges[c][k].peer = "closed"
               /\ bridges' = [bridges EXCEPT ![c][k] =
                                IF ok THEN [@ EXCEPT !.upData = FALSE]
                                ELSE [@ EXCEPT !.upData = FALSE, !.down = "done"]]
       ELSE bridges' = [bridges EXCEPT ![c][k].down = "done"]
    /\ UNCHANGED <<srv, portRangeStart, portRangeEnd, forwards, lock, cs, grants, restVars>>

\* Lines 261-262 and the deferred c.Close() and wg.Done(): both copies are done.
BridgeClose(c, k) ==
    /\ bridges[c][k].st = "copy"
    /\ bridges[c][k].up = "done"
    /\ bridges[c][k].down = "done"
    /\ bridges' = [bridges EXCEPT ![c][k] = ClosedBridge(@)]
    /\ UNCHANGED <<srv, portRangeStart, portRangeEnd, forwards, lock, cs, grants, restVars>>

\* The public peer sends bytes.
PeerSend(c, k) ==
    /\ bridges[c][k].st \in {"open", "copy"}
    /\ bridges[c][k].peer = "idle"
    /\ bridges' = [bridges EXCEPT ![c][k].peer = "sent"]
    /\ UNCHANGED <<srv, portRangeStart, portRangeEnd, forwards, lock, cs, grants, restVars>>

\* The public peer closes its connection.
PeerClose(c, k) ==
    /\ bridges[c][k].st \in {"open", "copy"}
    /\ bridges[c][k].peer \in {"idle", "sent"}
    /\ bridges' = [bridges EXCEPT ![c][k].peer = "closed"]
    /\ UNCHANGED <<srv, portRangeStart, portRangeEnd, forwards, lock, cs, grants, restVars>>

\* The client closes the data channel.
ClientCloseChannel(c, k) ==
    /\ bridges[c][k].st = "copy"
    /\ cs[c].sshAlive
    /\ ~bridges[c][k].chEOF
    /\ bridges' = [bridges EXCEPT ![c][k].chEOF = TRUE, ![c][k].chClosed = TRUE]
    /\ UNCHANGED <<srv, portRangeStart, portRangeEnd, forwards, lock, cs, grants, restVars>>

(* ------------------------- the specifications ------------------------- *)

\* The steps the server's own goroutines take on connection c.
ServerStep(c) ==
    \/ ConnClosed(c)
    \/ AssignEnter(c)
    \/ AssignCheck(c)
    \/ AssignStore(c)
    \/ AssignResult(c)
    \/ BindListener(c)
    \/ WatcherCloseListener(c)
    \/ WatcherCloseDone(c)
    \/ AcceptClosed(c)
    \/ WaitBridges(c)
    \/ ReleaseLock(c)
    \/ ReleaseDelete(c)
    \/ HandleReturn(c)
    \/ \E k \in 1..MaxBridges :
          \/ BridgeOpenChannel(c, k)
          \/ CopyToClient(c, k)
          \/ CopyToService(c, k)
          \/ BridgeClose(c, k)

\* The steps that wait for the client, the public peers or the operating system.
EnvStep(c) ==
    \/ AcceptSSH(c)
    \/ SSHTerminate(c)
    \/ NextChannel(c)
    \/ ProcessHandshake(c)
    \/ AcceptPeer(c)
    \/ AcceptError(c)
    \/ \E k \in 1..MaxBridges :
          \/ PeerSend(c, k)
          \/ PeerClose(c, k)
          \/ ClientCloseChannel(c, k)

Next ==
    \/ RunValidate
    \/ \E c \in Conns : ServerStep(c)
    \/ \E c \in Conns : EnvStep(c)

Spec == Init /\ [][Next]_vars

\* The Go scheduler runs every runnable goroutine, and a sync.Mutex does not
\* starve a waiter: every step of the server's own goroutines that stays
\* possible is taken. Nothing is assumed of the client, the public peers or
\* the operating system.
Fairness ==
    \A c \in Conns :
        /\ WF_vars(ConnClosed(c))
        /\ SF_vars(AssignEnter(c))
        /\ WF_vars(AssignCheck(c))
        /\ WF_vars(AssignStore(c))
        /\ WF_vars(AssignResult(c))
        /\ WF_vars(BindListener(c))
        /\ WF_vars(WatcherCloseListener(c))
        /\ WF_vars(WatcherCloseDone(c))
        /\ WF_vars(AcceptClosed(c))
        /\ WF_vars(WaitBridges(c))
        /\ SF_vars(ReleaseLock(c))
        /\ WF_vars(ReleaseDelete(c))
        /\ WF_vars(HandleReturn(c))
        /\ \A k \in 1..MaxBridges :
              /\ WF_vars(BridgeOpenChannel(c, k))
              /\ WF_vars(CopyToClient(c, k))
              /\ WF_vars(CopyToService(c, k))
              /\ WF_vars(BridgeClose(c, k))

FairSpec == Spec /\ Fairness

(* ======================= claims on assignPort ========================= *)

Unavailable32 == U32(1, ErrPortUnavailable)
OutOfRange32 == U32(1, ErrPortOutOfRange)
Internal32 == U32(1, ErrInternal)

\* assignPort has returned to caller c.
AtReturn(c) == cs[c].pc = "assigned"

InRange(p) == portRangeStart <= p /\ p <= portRangeEnd

\* C1: in every interleaving of concurrent assignPort calls on one map and one
\* mutex, no port is returned with mask 0 to two calls unless it was released
\* in between: no port is granted twice among the grants not yet released.
C1_NoDoubleGrant ==
    \A p \in BagToSet(grants) : CopiesIn(p, grants) <= 1

\* Two callers hold the results of two overlapping successful calls.
C1_Witness ==
    /\ AtReturn(1) /\ AtReturn(2)
    /\ cs[1].mask = NoMask /\ cs[2].mask = NoMask
    /\ cs[1].reqPort = 0 /\ cs[2].reqPort = 0
    /\ cs[1].port # cs[2].port

\* C6: assignPort applies its rules in order: a reversed range yields
\* PortUnavailable even for a specific request; else a specific request outside
\* the range yields PortOutOfRange; else one already reserved yields
\* PortUnavailable; else it is reserved and returned with mask 0.
C6_RuleOrder ==
    AtReturn(1) =>
        LET r == cs[1].reqPort
            res == <<cs[1].port, cs[1].mask>>
        IN /\ portRangeStart > portRangeEnd => res = <<0, Unavailable32>>
           /\ (portRangeStart <= portRangeEnd /\ r # 0 /\ ~InRange(r))
                 => res = <<0, OutOfRange32>> /\ forwards = cs[1].pre
           /\ (portRangeStart <= portRangeEnd /\ r # 0 /\ InRange(r) /\ r \in cs[1].pre)
                 => res = <<0, Unavailable32>> /\ forwards = cs[1].pre
           /\ (portRangeStart <= portRangeEnd /\ r # 0 /\ InRange(r) /\ r \notin cs[1].pre)
                 => res = <<r, NoMask>> /\ r \in forwards

\* A specific request on a reversed range was answered.
C6_Witness ==
    /\ AtReturn(1)
    /\ portRangeStart > portRangeEnd
    /\ cs[1].reqPort # 0
    /\ cs[1].mask = Unavailable32

\* The ranges C7 speaks of, and a call on the empty set that has returned.
C7_Case ==
    /\ AtReturn(1)
    /\ 1 <= portRangeStart /\ portRangeStart <= portRangeEnd
    /\ portRangeEnd <= MaxPortNumber
    /\ cs[1].pre = {}

\* C7 as stated: on an empty set and 1 <= s <= e <= 65535, requests s and e
\* succeed and requests s-1 and e+1 yield PortOutOfRange and reserve nothing.
C7_Original ==
    C7_Case =>
        LET r == cs[1].reqPort
            res == <<cs[1].port, cs[1].mask>>
        IN /\ r \in {portRangeStart, portRangeEnd} => res = <<r, NoMask>>
           /\ r \in {portRangeStart - 1, portRangeEnd + 1}
                 => res = <<0, OutOfRange32>> /\ forwards = {}

\* C7, amended: as stated, except that for s = 1 the request s-1 is 0, the
\* automatic request, which reserves and returns s.
C7_Boundaries ==
    C7_Case =>
        LET r == cs[1].reqPort
            res == <<cs[1].port, cs[1].mask>>
        IN /\ r \in {portRangeStart, portRangeEnd}
                 => res = <<r, NoMask>> /\ forwards = {r}
           /\ (r = portRangeEnd + 1 \/ (r = portRangeStart - 1 /\ portRangeStart >= 2))
                 => res = <<0, OutOfRange32>> /\ forwards = {}
           /\ (r = portRangeStart - 1 /\ portRangeStart = 1)
                 => res = <<portRangeStart, NoMask>> /\ forwards = {portRangeStart}

\* The request below a range that starts at 2 was refused.
C7_Witness ==
    /\ C7_Case
    /\ portRangeStart = 2
    /\ cs[1].reqPort = 1
    /\ cs[1].mask = OutOfRange32

\* The smallest port of [start, end] outside fw.
SmallestFree(fw) ==
    CHOOSE p \in portRangeStart..portRangeEnd :
        p \notin fw /\ \A q \in portRangeStart..portRangeEnd : q \notin fw => p <= q

\* C8: an automatic request reserves and returns the smallest unreserved port
\* of [start, end], and yields PortUnavailable exactly when every port of the
\* range is reserved; on [10000, 10002] two automatic requests in a row, from
\* the empty set, return 10000 and then 10001.
C8_FirstFit ==
    (AtReturn(1) /\ cs[1].reqPort = 0) =>
        LET range == portRangeStart..portRangeEnd
            full == \A p \in range : p \in cs[1].pre
        IN /\ (cs[1].mask = Unavailable32) <=> full
           /\ full => cs[1].port = 0 /\ forwards = cs[1].pre
           /\ ~full => /\ cs[1].mask = NoMask
                        /\ cs[1].port = SmallestFree(cs[1].pre)
                        /\ cs[1].port \in forwards
           /\ (portRangeStart = 10000 /\ portRangeEnd = 10002)
                 => /\ cs[1].pre = {} => cs[1].port = 10000
                    /\ cs[1].pre = {10000} => cs[1].port = 10001

\* The second automatic request of the scenario returned 10001.
C8_Witness ==
    /\ AtReturn(1)
    /\ cs[1].reqPort = 0
    /\ portRangeStart = 10000
    /\ cs[1].pre = {10000}
    /\ cs[1].port = 10001
    /\ cs[1].mask = NoMask

\* C9: on a range accepted by Validate and an empty set, a request for a port
\* of the range returns that port; and an automatic request never returns a
\* port that was returned before and not released since.
C9_SpecificThenAuto ==
    AtReturn(1) =>
        /\ (Validate(portRangeStart, portRangeEnd) /\ InRange(cs[1].reqPort)
              /\ cs[1].pre = {})
              => cs[1].port = cs[1].reqPort /\ cs[1].mask = NoMask
        /\ (cs[1].reqPort = 0 /\ cs[1].mask = NoMask)
              => /\ CopiesIn(cs[1].port, grants) = 1
                 /\ cs[1].port \notin cs[1].pre
                 /\ BagToSet(grants) = cs[1].pre \cup {cs[1].port}

\* An automatic request was answered while only start + 1 was reserved: that
\* set comes from a specific request for start + 1 on the empty set.
C9_Witness ==
    /\ AtReturn(1)
    /\ cs[1].reqPort = 0
    /\ cs[1].pre = {portRangeStart + 1}
    /\ cs[1].mask = NoMask
    /\ cs[1].port = portRangeStart

\* C39: an assignPort call that fails, with PortOutOfRange or
\* PortUnavailable, for a specific or an automatic request, leaves the
\* reservation set as it was at the call; a call that succeeds adds the port
\* it returns, which was not reserved, and changes no other entry.
C39_AssignPortFrame ==
    AtReturn(1) =>
        /\ cs[1].mask \in {NoMask, Unavailable32, OutOfRange32}
        /\ cs[1].mask # NoMask => (forwards = cs[1].pre /\ cs[1].port = 0)
        /\ cs[1].mask = NoMask =>
              /\ cs[1].port \notin cs[1].pre
              /\ forwards = cs[1].pre \cup {cs[1].port}

\* An automatic request on a range whose ports are all reserved has failed.
C39_Witness ==
    /\ AtReturn(1)
    /\ cs[1].reqPort = 0
    /\ cs[1].mask = Unavailable32
    /\ portRangeStart < portRangeEnd
    /\ cs[1].pre # {}
    /\ forwards = cs[1].pre

(* ================== claims on the forward session ===================== *)

\* handleChannel on connection c is at its return.
AtHandleReturn(c) == cs[c].pc = "ret"

\* Connection c's handleChannel call is in its accept loop or on the way from
\* RELEASE to the delete: its port has not been removed from forwards.
HoldsPort(c) == cs[c].pc \in {"accept", "wgwait", "rel_lock", "rel_del"}

\* The session of connection c is in Serving: in the accept loop, with its SSH
\* connection up.
Serving(c) == cs[c].pc = "accept" /\ cs[c].sshAlive

\* C2: a handleChannel call that returns without having reached Serving
\* leaves no port reserved that it added.
C2_NoPortLeftReserved ==
    \A c \in Conns :
        (AtHandleReturn(c) /\ ~cs[c].served) => cs[c].added \cap forwards = {}

\* C3: once the SSH connection of a session that holds its port has ended, the
\* port is eventually removed from the reservation set, whatever the public
\* peers do.
C3_PortEventuallyReleased ==
    \A c \in Conns :
        (HoldsPort(c) /\ ~cs[c].sshAlive) ~> ~HoldsPort(c)

\* C4: every session in Serving holds one port, which is in the reservation
\* set and has the session's open listener bound on it, and no two sessions in
\* Serving hold the same port.
C4_ServingHoldsBoundPort ==
    \A c \in Conns :
        Serving(c) =>
            /\ cs[c].port \in forwards
            /\ cs[c].ln.open
            /\ cs[c].ln.port = cs[c].port
            /\ \A d \in Conns \ {c} : Serving(d) => cs[d].port # cs[c].port

\* C5: under a configuration Validate accepts, every reserved port lies in
\* [start, end] and in 1..65535, and no client is sent port 0 as its port.
C5_ReservedPortsAreRealPorts ==
    /\ \A p \in forwards : InRange(p) /\ 1 <= p /\ p <= MaxPortNumber
    /\ \A c \in Conns : cs[c].served => cs[c].reply # <<ToU32(0)>>

\* What the allocator is asked in connection c's handshake.
Asked(c) == [r |-> cs[c].reqPort, fw |-> cs[c].pre]

RangeFull(fw) == \A p \in portRangeStart..portRangeEnd : p \in fw

\* C10: the reply to the port request is one u32: the assigned port, high bit
\* clear, when allocation and bind succeed; 0x80000003 for a requested port
\* outside the range; 0x80000001 for a requested port already reserved or an
\* exhausted range; 0x80000004 when the bind fails. Nothing is written before
\* the outcome is known.
C10_PortReply ==
    \A c \in Conns :
        /\ Len(cs[c].reply) <= 1
        /\ cs[c].pc \in {"assign", "check", "store", "assigned", "bind"} => cs[c].reply = <<>>
        /\ ((AtHandleReturn(c) \/ HoldsPort(c)) /\ cs[c].portRead) =>
              LET a == Asked(c)
              IN IF a.r # 0 /\ ~InRange(a.r)
                 THEN cs[c].reply = <<U32(1, 3)>>
                 ELSE IF (a.r # 0 /\ a.r \in a.fw) \/ (a.r = 0 /\ RangeFull(a.fw))
                 THEN cs[c].reply = <<U32(1, 1)>>
                 ELSE IF cs[c].ln.port = -1
                 THEN cs[c].reply = <<U32(1, 4)>>
                 ELSE /\ cs[c].reply = <<U32(0, cs[c].port)>>
                      /\ cs[c].port \in portRangeStart..portRangeEnd
                      /\ a.r # 0 => cs[c].port = a.r

\* A handshake ended on a failed bind, with the Internal reply.
C10_Witness ==
    \E c \in Conns :
        /\ AtHandleReturn(c)
        /\ cs[c].portRead
        /\ cs[c].ln.port = -1
        /\ cs[c].reply = <<U32(1, 4)>>

(* ================== claims on the end of a session ==================== *)

\* C22: in a Serving session an accept error flagged as temporary does not
\* end the session: the session stays in its accept loop and its port stays
\* reserved.
C22_TemporaryAcceptErrorIsRetried ==
    \A c \in Conns :
        cs[c].acceptErr = "temporary" =>
            /\ cs[c].pc = "accept"
            /\ cs[c].port \in forwards

\* C24: releasing a port removes that port from the reservation set and no
\* other, releasing it again changes nothing, and a later specific request
\* for a port that was released, and that nobody reserved since, succeeds.
C24_ReleaseFreesOnlyThePort ==
    /\ [][(cs[1].pc = "rel_del" /\ cs'[1].pc = "ret") =>
            /\ forwards' = forwards \ {cs[1].port}
            /\ Delete(forwards', cs[1].port) = forwards']_vars
    /\ []((cs[1].pc = "ret" /\ cs[1].port \in cs[1].freed) => cs[1].port \notin forwards)
    /\ [](LET r == cs[1].reqPort
          IN (AtReturn(1) /\ r # 0 /\ r \in cs[1].freed /\ r \notin cs[1].pre) =>
                /\ cs[1].port = r
                /\ cs[1].mask = NoMask
                /\ r \in forwards)

\* A specific request for a port that was released before has succeeded,
\* while another port stayed reserved through the release.
C24_Witness ==
    /\ AtReturn(1)
    /\ cs[1].reqPort # 0
    /\ cs[1].reqPort \in cs[1].freed
    /\ cs[1].port = cs[1].reqPort
    /\ cs[1].mask = NoMask
    /\ cs[1].pre # {}

\* C25: when a session ends because its SSH connection terminated, its port
\* is deleted from forwards only after every bridge of the session has
\* finished.
C25_PortReleasedAfterBridges ==
    \A c \in Conns :
        (/\ cs[c].served
         /\ ~cs[c].sshAlive
         /\ cs[c].port \in cs[c].freed) => LiveBridges(c) = {}

\* C26: the listener of a session is closed before the session's port is
\* deleted from forwards: while the listener is bound the port is reserved.
C26_ListenerClosedBeforeRelease ==
    \A c \in Conns :
        (cs[c].served /\ cs[c].ln.open) => cs[c].port \in forwards

\* C27: after the SSH connection of a session has terminated, every bridge
\* of the session ends: both copies return and the public connection is
\* closed, whatever the public peer does.
C27_NoBridgeOutlivesTheConnection ==
    \A c \in Conns : \A k \in 1..MaxBridges :
        (~cs[c].sshAlive /\ bridges[c][k].st \in {"open", "copy"})
            ~> (bridges[c][k].st \notin {"open", "copy"})

\* channel.Write on a channel of a connection that has shut down returns an
\* error.
WriteFails(c) == ~cs[c].sshAlive

\* C32: a failed write of the port reply is fatal for the session: the call
\* that leaves the bind step with the connection gone returns, it does not
\* enter the accept loop and it leaves no port reserved.
C32_FailedWriteAbortsSession ==
    [][\A c \in Conns :
         (cs[c].pc = "bind" /\ WriteFails(c) /\ cs'[c].pc # "bind") =>
            /\ cs'[c].pc = "ret"
            /\ ~cs'[c].served
            /\ ~cs'[c].ln.open]_vars

(* ==================== Run's accept loop, on its own =================== *)

\* The SSH listener fails for good: from now on every ln.Accept() returns a
\* fatal error.
ListenerFails ==
    /\ srv = "accepting"
    /\ srv' = "failing"
    /\ UNCHANGED <<portRangeStart, portRangeEnd, forwards, lock, cs, bridges, grants, restVars>>

\* Run, lines 94-96: ln.Accept() returns an error, a temporary one on a
\* listener that works or the fatal one of a listener that failed, and the
\* error is logged.
RunAcceptError ==
    /\ srv \in {"accepting", "failing"}
    /\ srv' = IF srv = "accepting" THEN "backoff" ELSE "backoffFatal"
    /\ UNCHANGED <<portRangeStart, portRangeEnd, forwards, lock, cs, bridges, grants, restVars>>

\* Run, lines 97-98: time.Sleep(100 * time.Millisecond); continue. The loop
\* calls ln.Accept() again, whatever the error was.
RunBackoff ==
    /\ srv \in {"backoff", "backoffFatal"}
    /\ srv' = IF srv = "backoff" THEN "accepting" ELSE "failing"
    /\ UNCHANGED <<portRangeStart, portRangeEnd, forwards, lock, cs, bridges, grants, restVars>>

\* The steps of Run's goroutine.
RunStep ==
    \/ RunValidate
    \/ RunAcceptError
    \/ RunBackoff
    \/ \E c \in Conns : AcceptSSH(c)

RunNext ==
    \/ RunStep
    \/ ListenerFails
    \/ \E c \in Conns : SSHTerminate(c)
    \/ \E c \in Conns : ConnClosed(c)

RunSpec == Init /\ [][RunNext]_vars

\* Run's goroutine takes a step while it can take one.
RunFairSpec == RunSpec /\ WF_vars(RunStep)

\* C23: a fatal accept error on the SSH listener makes the accept loop stop
\* and Run return an error.
C23_FatalAcceptErrorEndsRun == (srv = "failing") ~> (srv = "exit")

(* ============================ the client ============================== *)

(* ----------------------------- bounds --------------------------------- *)

\* Frames the scripted server writes on one control channel.
MaxFrames == 3

\* The repeated characters of the long whitelist entry.
LongEntryLen == 300

\* The longest prefix of the whitelist bytes a lost connection leaves behind.
MaxCut == 24

(* ------------------------ program constants --------------------------- *)

\* Run: const maxRetries
maxRetries == 5

(* -------------------- ClientParameters.Validate ----------------------- *)

\* Mutant: every configuration passes.
ClientValidateAlways(cp) == TRUE

\* ClientParameters.Validate: TRUE when no error is returned.
ClientValidate(cp) ==
    /\ cp.Endpoint # ""
    /\ ~(cp.EndpointPort <= 0 \/ cp.EndpointPort > MaxPortNumber)
    /\ cp.Username # ""
    /\ ~(cp.PrivateKeyPath = "" /\ cp.Password = "")
    /\ cp.LocalHost # ""
    /\ ~(cp.LocalPort <= 0 \/ cp.LocalPort > MaxPortNumber)
    /\ cp.RemoteHost # ""
    /\ ~(cp.RemotePort < 0 \/ cp.RemotePort > MaxPortNumber)

(* ------------------------- the port reply ----------------------------- *)

\* Mutant: any non-zero low bits taken for the error bit.
HasErrMaskLowBits(val) == val.lo # 0

\* val&ErrMask != 0
HasErrMask(val) == val.hi = 1

\* val &^ ErrMask
ClearErrMask(val) == U32(0, val.lo)

Err(msg) == [msg |-> msg, code |-> ToU32(0)]

ErrCode(msg, code) == [msg |-> msg, code |-> code]

\* switch errCode, lines 158-167
ReplyError(errCode) ==
    IF errCode = ToU32(ErrPortUnavailable) THEN Err("server: no available ports")
    ELSE IF errCode = ToU32(ErrPortOutOfRange) THEN Err("server: port out of range")
    ELSE IF errCode = ToU32(ErrInternal) THEN Err("server: internal error")
    ELSE ErrCode("server error code", errCode)

(* ------------------------------- Run ---------------------------------- *)

\* runSession returns e: the deferred ch.Close() runs, and Run closes the
\* connection and returns e.
\* Mutant: the error of the session sends Run round its loop.
AbortAndRetry(e) == [cl EXCEPT !.pc = "connect", !.err = e, !.connected = FALSE]

Abort(e) == [cl EXCEPT !.pc = "exit", !.err = e, !.connected = FALSE]

\* The wire after the client closed its channel and its connection.
ClientClosed(w) == [w EXCEPT !.upEOF = TRUE]

\* Run, lines 39-49: flag.Parse, Validate; an invalid configuration is returned
\* as an error at once.
ClientRunValidate ==
    /\ cl.pc = "start"
    /\ cl' = IF ClientValidate(cl.params)
             THEN [cl EXCEPT !.pc = "connect", !.retry = 0]
             ELSE [cl EXCEPT !.pc = "exit", !.err = Err("invalid client parameters")]
    /\ UNCHANGED <<serverVars, allowedIPs, wire, fwd, m>>

\* Mutant: at maxRetries the counter starts again from 0.
ClientConnectWraps ==
    /\ cl.pc = "connect"
    /\ \E outcome \in {"config error", "dial error", "connected"} :
          cl' = IF outcome = "connected"
                THEN [cl EXCEPT !.pc = "session", !.connected = TRUE, !.Active = TRUE,
                                !.failed = 0]
                ELSE [cl EXCEPT !.retry = IF @ < maxRetries THEN @ + 1 ELSE 0]
    /\ wire' = NoWire
    /\ UNCHANGED <<serverVars, allowedIPs, fwd, m>>

\* Run, lines 51-61 and 85-90: one turn of the loop up to the session.
\* GetClientConfig or ssh.Dial fails: below maxRetries the counter goes up and
\* the loop sleeps and goes round, else Run returns its error.
ClientConnect ==
    /\ cl.pc = "connect"
    /\ \E outcome \in {"config error", "dial error", "connected"} :
          LET tried == [cl EXCEPT !.configs = @ + 1,
                                  !.dials = IF outcome = "config error" THEN @ ELSE @ + 1]
          IN cl' = IF outcome = "connected"
                   THEN [tried EXCEPT !.pc = "session", !.connected = TRUE, !.Active = TRUE,
                                      !.failed = 0]
                   ELSE IF cl.retry < maxRetries
                   THEN [tried EXCEPT !.retry = @ + 1, !.sleeps = @ + 1, !.failed = @ + 1]
                   ELSE [tried EXCEPT !.pc = "exit", !.failed = @ + 1,
                                      !.err = Err("failed to establish SSH connection")]
    /\ wire' = NoWire
    /\ UNCHANGED <<serverVars, allowedIPs, fwd, m>>

(* ---------------------------- runSession ------------------------------ *)

\* Line 97: OpenChannel sends the request to open the control channel.
OpenChannel ==
    /\ cl.pc = "session"
    /\ cl' = [cl EXCEPT !.pc = "opening"]
    /\ wire' = IF wire.ch = "none" THEN [wire EXCEPT !.ch = "requested"] ELSE wire
    /\ UNCHANGED <<serverVars, allowedIPs, fwd, m>>

\* Lines 97-102: OpenChannel returns, with the channel or with an error.
ChannelOpened ==
    /\ cl.pc = "opening"
    /\ wire.ch \in {"open", "refused"}
    /\ IF wire.ch = "open"
       THEN cl' = [cl EXCEPT !.pc = "readCode"] /\ UNCHANGED wire
       ELSE cl' = Abort(Err("open handshake channel")) /\ wire' = ClientClosed(wire)
    /\ UNCHANGED <<serverVars, allowedIPs, fwd, m>>

\* io.ReadFull(ch, hb[:]) can return: four bytes are there, or the stream ended.
CanReadFrame == Len(wire.down) >= 4 \/ wire.downEOF

\* Lines 107-118: the handshake response.
ReadCode ==
    /\ cl.pc = "readCode"
    /\ CanReadFrame
    /\ IF Len(wire.down) < 4
       THEN cl' = Abort(Err("handshake read error")) /\ wire' = ClientClosed(wire)
       ELSE LET code == Uint32(Take(wire.down, 4))
            IN IF code = ToU32(ErrSuccess)
               THEN /\ cl' = [cl EXCEPT !.pc = "sendWL"]
                    /\ wire' = [wire EXCEPT !.down = Drop(@, 4)]
               ELSE /\ cl' = Abort(IF code = ToU32(ErrIPNotAllowed)
                                   THEN ErrCode("server rejected IP", code)
                                   ELSE ErrCode("handshake failed with code", code))
                    /\ wire' = ClientClosed([wire EXCEPT !.down = Drop(@, 4)])
    /\ UNCHANGED <<serverVars, allowedIPs, fwd, m>>

\* Lines 126-133: for each entry the u32 length of its bytes, then the bytes.
RECURSIVE EncodeEntries(_, _)
EncodeEntries(wl, i) ==
    IF i > Len(wl) THEN <<>>
    ELSE PutUint32(ToU32(Len(Bytes(wl[i])))) \o Bytes(wl[i]) \o EncodeEntries(wl, i + 1)

Min(a, b) == IF a < b THEN a ELSE b

\* Lines 122-133: the count frame, then the entries.
EncodeWhitelist(wl) == PutUint32(ToU32(Len(wl))) \o EncodeEntries(wl, 1)

\* Lines 121-133: the whitelist is written. A failed write of the count is an
\* error; the writes of the entries are not checked, so that a connection
\* lost on the way leaves a prefix of the bytes on the wire, which ends
\* after the count frame, inside a length, inside an entry or between two.
SendWhitelist ==
    /\ cl.pc = "sendWL"
    /\ LET bytes == EncodeWhitelist(cl.params.AllowedIPs)
       IN \/ /\ ~wire.downEOF
             /\ cl' = [cl EXCEPT !.pc = "readConfirm"]
             /\ wire' = [wire EXCEPT !.up = @ \o bytes]
          \/ /\ wire.downEOF
             /\ cl' = Abort(Err("send whitelist length"))
             /\ wire' = ClientClosed(wire)
          \/ /\ ~wire.downEOF
             /\ \E n \in 4..Min(Len(bytes) - 1, MaxCut) :
                   wire' = [wire EXCEPT !.up = @ \o Take(bytes, n),
                                        !.upEOF = TRUE, !.downEOF = TRUE]
             /\ cl' = [cl EXCEPT !.pc = "readConfirm", !.connected = FALSE]
    /\ UNCHANGED <<serverVars, allowedIPs, fwd, m>>

\* Mutant: the code of the whitelist confirmation is not looked at.
ReadConfirmAnyCode ==
    /\ cl.pc = "readConfirm"
    /\ CanReadFrame
    /\ IF Len(wire.down) < 4
       THEN cl' = Abort(Err("whitelist confirm read error")) /\ wire' = ClientClosed(wire)
       ELSE /\ cl' = [cl EXCEPT !.pc = "sendPort"]
            /\ wire' = [wire EXCEPT !.down = Drop(@, 4)]
    /\ UNCHANGED <<serverVars, allowedIPs, fwd, m>>

\* Lines 136-142: the whitelist confirmation.
ReadConfirm ==
    /\ cl.pc = "readConfirm"
    /\ CanReadFrame
    /\ IF Len(wire.down) < 4
       THEN cl' = Abort(Err("whitelist confirm read error")) /\ wire' = ClientClosed(wire)
       ELSE IF Uint32(Take(wire.down, 4)) # ToU32(ErrSuccess)
       THEN /\ cl' = Abort(Err("whitelist rejected by server"))
            /\ wire' = ClientClosed([wire EXCEPT !.down = Drop(@, 4)])
       ELSE /\ cl' = [cl EXCEPT !.pc = "sendPort"]
            /\ wire' = [wire EXCEPT !.down = Drop(@, 4)]
    /\ UNCHANGED <<serverVars, allowedIPs, fwd, m>>

\* Lines 145-149: the requested port is written.
SendPort ==
    /\ cl.pc = "sendPort"
    /\ IF wire.downEOF
       THEN cl' = Abort(Err("send port request")) /\ wire' = ClientClosed(wire)
       ELSE /\ cl' = [cl EXCEPT !.pc = "readReply"]
            /\ wire' = [wire EXCEPT !.up = @ \o PutUint32(ToU32(cl.params.RemotePort))]
    /\ UNCHANGED <<serverVars, allowedIPs, fwd, m>>

\* Lines 152-195: the port reply. With the error bit set runSession returns the
\* error of the code; else the port is recorded and the goroutine that takes
\* the forwarded channels is started.
ReadReply ==
    /\ cl.pc = "readReply"
    /\ CanReadFrame
    /\ IF Len(wire.down) < 4
       THEN cl' = Abort(Err("read port response error")) /\ wire' = ClientClosed(wire)
       ELSE LET val == Uint32(Take(wire.down, 4))
            IN IF HasErrMask(val)
               THEN /\ cl' = [Abort(ReplyError(ClearErrMask(val))) EXCEPT !.reply = <<val>>]
                    /\ wire' = ClientClosed([wire EXCEPT !.down = Drop(@, 4)])
               ELSE /\ cl' = [cl EXCEPT !.pc = "wait", !.AssignedPort = val.lo,
                                        !.handler = TRUE, !.reply = <<val>>]
                    /\ wire' = [wire EXCEPT !.down = Drop(@, 4)]
    /\ UNCHANGED <<serverVars, allowedIPs, fwd, m>>

\* The handleForward calls that have not returned.
LiveForwards == {k \in 1..MaxBridges : fwd[k].st \notin {"none", "closed"}}

\* (*ssh.Client).Wait of a connection made by ssh.Dial: it returns once the
\* connection has shut down, with the error that caused the shutdown.
ConnWait == Err("connection lost")

\* Line 198 and Run, lines 69-81: Connection.Wait() returns and runSession
\* returns its result. An error is returned by Run after closing the
\* connection; with no error Run waits for the forwards, closes the
\* connection, sleeps, resets the counter and goes round the loop.
SessionEnd ==
    /\ cl.pc = "wait"
    /\ ~cl.connected
    /\ IF ConnWait # NoError
       THEN cl' = Abort(ConnWait)
       ELSE /\ LiveForwards = {}
            /\ cl' = [cl EXCEPT !.pc = "connect", !.retry = 0, !.sleeps = @ + 1]
    /\ wire' = ClientClosed(wire)
    /\ UNCHANGED <<serverVars, allowedIPs, fwd, m>>

\* The SSH connection is lost: the network drops or the server goes away.
ConnectionLost ==
    /\ cl.connected
    /\ cl.pc # "exit"
    /\ cl' = [cl EXCEPT !.connected = FALSE]
    /\ wire' = [wire EXCEPT !.ch = IF @ = "requested" THEN "refused" ELSE @,
                            !.upEOF = TRUE, !.downEOF = TRUE]
    /\ UNCHANGED <<serverVars, allowedIPs, fwd, m>>

(* ----------------- the client against a scripted server --------------- *)

\* The frames a scripted server answers with, as the stub connections of the
\* client's tests do: the handshake codes, ports, and error replies.
MockFrames ==
    { ToU32(ErrSuccess), ToU32(ErrPortUnavailable), ToU32(ErrIPNotAllowed),
      ToU32(4242), ToU32(MaxPortNumber), ToU32(70000), U32(0, 2147483647),
      ErrMask, U32(1, ErrPortUnavailable), U32(1, ErrIPNotAllowed),
      U32(1, ErrPortOutOfRange), U32(1, ErrInternal), U32(1, 42), U32(1, 2147483647) }

\* A valid configuration.
BaseParams ==
    [ Endpoint |-> "tunnel.example", EndpointPort |-> 22, Username |-> "user",
      Password |-> "secret", PrivateKeyPath |-> "", LocalHost |-> "localhost",
      LocalPort |-> 8080, RemoteHost |-> "0.0.0.0", RemotePort |-> 0,
      AllowedIPs |-> <<>> ]

\* An entry longer than one byte of length can tell, as in
\* TestProcessHandshake_LongWhitelistEntries.
LongEntry == [i \in 1..LongEntryLen |-> "1"] \o <<".", "0", ".", "0", ".", "0", "/", "8">>

\* The whitelists the client is configured with: none, one address, an empty
\* entry before a prefix, a long entry before an address.
ClientWhitelists ==
    { <<>>,
      << <<"1", "0", ".", "0", ".", "0", ".", "1">> >>,
      << <<>>, <<"1", "0", ".", "0", ".", "0", ".", "0", "/", "8">> >>,
      << LongEntry, <<"1", "0", ".", "0", ".", "0", ".", "1">> >> }

\* The zero value and the configurations with one field out of its domain:
\* an empty endpoint, user, local or remote host, no key and no password, a
\* port outside 1..65535, a remote port outside 0..65535.
InvalidParamSets ==
    { NoParams,
      [BaseParams EXCEPT !.Endpoint = ""],
      [BaseParams EXCEPT !.EndpointPort = 0],
      [BaseParams EXCEPT !.EndpointPort = MaxPortNumber + 1],
      [BaseParams EXCEPT !.Username = ""],
      [BaseParams EXCEPT !.Password = ""],
      [BaseParams EXCEPT !.LocalHost = ""],
      [BaseParams EXCEPT !.LocalPort = 0],
      [BaseParams EXCEPT !.RemoteHost = ""],
      [BaseParams EXCEPT !.RemotePort = -1],
      [BaseParams EXCEPT !.RemotePort = MaxPortNumber + 1] }

\* The configurations Run is called with: valid ones, and those with one
\* field that Validate refuses, and the zero value.
ClientParamSets ==
    { [BaseParams EXCEPT !.RemotePort = r, !.AllowedIPs = wl] :
          r \in {0, 8080, MaxPortNumber}, wl \in ClientWhitelists }
    \cup InvalidParamSets

\* The server part of the state when only the client runs.
ServerIdle ==
    /\ srv = "none"
    /\ portRangeStart = 0
    /\ portRangeEnd = 0
    /\ forwards = {}
    /\ lock = 0
    /\ cs = [c \in Conns |-> InitConn]
    /\ bridges = InitBridges
    /\ grants = EmptyBag
    /\ allowedIPs = <<>>

ClientInit ==
    /\ ServerIdle
    /\ \E cp \in ClientParamSets : cl = [NoClient EXCEPT !.pc = "start", !.params = cp]
    /\ wire = NoWire
    /\ fwd = InitForwards
    /\ m = NoMatch

\* The scripted server accepts or refuses the channel.
MockAccept ==
    /\ wire.ch = "requested"
    /\ \E st \in {"open", "refused"} : wire' = [wire EXCEPT !.ch = st]
    /\ UNCHANGED <<serverVars, allowedIPs, cl, fwd, m>>

\* The scripted server writes its next frame.
MockSend ==
    /\ wire.ch = "open"
    /\ ~wire.downEOF
    /\ wire.down = <<>>
    /\ wire.sent < MaxFrames
    /\ \E f \in MockFrames :
          wire' = [wire EXCEPT !.down = PutUint32(f), !.sent = @ + 1]
    /\ UNCHANGED <<serverVars, allowedIPs, cl, fwd, m>>

\* The scripted server's data ends, at a frame boundary or inside a frame.
MockClose ==
    /\ wire.ch = "open"
    /\ ~wire.downEOF
    /\ wire.down = <<>>
    /\ \E rest \in {<<>>, <<0, 0>>} :
          wire' = [wire EXCEPT !.down = rest, !.downEOF = TRUE]
    /\ UNCHANGED <<serverVars, allowedIPs, cl, fwd, m>>

\* The steps of Run and runSession.
ClientStep ==
    \/ ClientRunValidate
    \/ ClientConnect
    \/ OpenChannel
    \/ ChannelOpened
    \/ ReadCode
    \/ SendWhitelist
    \/ ReadConfirm
    \/ SendPort
    \/ ReadReply
    \/ SessionEnd

ClientNext ==
    \/ ClientStep
    \/ ConnectionLost
    \/ MockAccept
    \/ MockSend
    \/ MockClose

ClientSpec == ClientInit /\ [][ClientNext]_vars

\* Run is one goroutine: while it can take a step it takes one. Nothing is
\* asked of the network and of the server.
ClientFairSpec == ClientSpec /\ WF_vars(ClientStep)

(* ======================== claims on the client ======================== *)

\* C11: the client takes a port reply v for an error exactly when bit 31 of v
\* is set; it then returns the error the low 31 bits select (1: no available
\* ports, 3: port out of range, 4: internal error, any other value N: server
\* error code N) and starts no handler of data channels; else it records v as
\* AssignedPort.
C11_PortReplyParsed ==
    cl.reply # <<>> =>
        LET v == cl.reply[1]
        IN IF v.hi = 1
           THEN /\ cl.pc = "exit"
                /\ ~cl.handler
                /\ cl.AssignedPort = 0
                /\ cl.err = IF v.lo = 1 THEN Err("server: no available ports")
                            ELSE IF v.lo = 3 THEN Err("server: port out of range")
                            ELSE IF v.lo = 4 THEN Err("server: internal error")
                            ELSE ErrCode("server error code", U32(0, v.lo))
           ELSE /\ cl.AssignedPort = v.lo
                /\ cl.handler
                /\ cl.err \in {NoError, ConnWait}

\* The reply 0x8000002A ended the session with "server error code 42".
C11_Witness ==
    /\ cl.reply = <<U32(1, 42)>>
    /\ cl.pc = "exit"
    /\ cl.err = ErrCode("server error code", ToU32(42))

\* C18: the client makes at most 5 failed connection attempts in a row,
\* counted from the start or from the last successful connection, before it
\* gives up.
C18_AtMostFiveFailedAttempts == cl.failed <= 5

\* C19: when an established session ends because its SSH connection
\* terminated, Run does not return: it resets the retry counter to 0 and goes
\* round its loop to dial the server again.
C19_EstablishedSessionReconnects ==
    (cl.pc = "wait" /\ cl.handler /\ ~cl.connected)
        ~> (cl.pc = "connect" /\ cl.retry = 0)

\* C20: a configuration that Validate refuses makes Run return "invalid
\* client parameters" with no SSH configuration built, no dial and no sleep.
C20_InvalidParametersAreFatal ==
    cl.params \in InvalidParamSets =>
        /\ cl.pc \in {"start", "exit"}
        /\ cl.pc = "exit" => cl.err = Err("invalid client parameters")
        /\ cl.configs = 0
        /\ cl.dials = 0
        /\ cl.sleeps = 0
        /\ cl.retry = 0
        /\ ~cl.connected

\* Run has returned for a configuration with endpoint port 0.
C20_Witness ==
    /\ cl.pc = "exit"
    /\ cl.params.EndpointPort = 0
    /\ cl.params.Endpoint # ""
    /\ cl.err = Err("invalid client parameters")

\* C35: when every connection attempt fails, Run terminates: for a valid
\* configuration it returns "failed to establish SSH connection" after at most
\* maxRetries + 1 attempts.
C35_FailedAttemptsEndRun ==
    /\ [](cl.failed <= maxRetries + 1)
    /\ (cl.params \notin InvalidParamSets /\ []~cl.connected) =>
          <>(/\ cl.pc = "exit"
             /\ cl.err = Err("failed to establish SSH connection")
             /\ cl.configs = maxRetries + 1)

\* Run has returned after maxRetries + 1 attempts, some of which failed to
\* build the configuration and some to dial.
C35_Witness ==
    /\ cl.pc = "exit"
    /\ cl.err = Err("failed to establish SSH connection")
    /\ cl.failed = maxRetries + 1
    /\ cl.dials = 3
    /\ cl.sleeps = maxRetries

\* The server reported a failure of the handshake: IPNotAllowed at step 1, or
\* a port reply with the high bit set.
ServerReportedFailure ==
    \/ cl.err = ErrCode("server rejected IP", ToU32(ErrIPNotAllowed))
    \/ cl.reply # <<>> /\ cl.reply[1].hi = 1

\* C21: a handshake failure the server reported is not retried: Run has
\* closed the connection and returned the error, and once it has returned no
\* SSH configuration is built and no dial is made.
C21_ReportedFailureIsNotRetried ==
    /\ [](ServerReportedFailure =>
            /\ cl.pc = "exit"
            /\ cl.err # NoError
            /\ ~cl.connected
            /\ wire.upEOF)
    /\ [][cl.pc = "exit" =>
            /\ cl'.pc = "exit"
            /\ cl'.configs = cl.configs
            /\ cl'.dials = cl.dials
            /\ cl'.sleeps = cl.sleeps]_vars

\* Run returned "server rejected IP" after the one dial that succeeded.
C21_Witness ==
    /\ cl.pc = "exit"
    /\ cl.err = ErrCode("server rejected IP", ToU32(ErrIPNotAllowed))
    /\ cl.dials = 1
    /\ wire.upEOF

\* The frame at the head of the bytes towards the client is not Success.
FailingFrame == Len(wire.down) >= 4 /\ Uint32(Take(wire.down, 4)) # ToU32(ErrSuccess)

\* C31: a step-1 code other than Success, or a whitelist confirmation other
\* than Success, makes runSession return an error, and from the failing frame
\* on the client writes nothing to the channel: no whitelist after a failed
\* step 1, no port request after a rejected whitelist.
C31_FailingFrameEndsTheSession ==
    /\ [][(cl.pc = "readCode" /\ FailingFrame /\ cl'.pc # cl.pc) =>
            /\ cl'.pc = "exit"
            /\ cl'.err \in { ErrCode("server rejected IP", Uint32(Take(wire.down, 4))),
                             ErrCode("handshake failed with code",
                                     Uint32(Take(wire.down, 4))) }
            /\ wire.up = <<>>
            /\ wire'.up = wire.up]_vars
    /\ [][(cl.pc = "readConfirm" /\ FailingFrame /\ cl'.pc # cl.pc) =>
            /\ cl'.pc = "exit"
            /\ cl'.err = Err("whitelist rejected by server")
            /\ wire'.up = wire.up]_vars
    /\ [][cl.pc = "exit" => (cl'.pc = "exit" /\ wire'.up = wire.up)]_vars

\* runSession returned "whitelist rejected by server" with the whitelist as
\* the only bytes it wrote.
C31_Witness ==
    /\ cl.pc = "exit"
    /\ cl.err = Err("whitelist rejected by server")
    /\ Len(cl.params.AllowedIPs) > 0
    /\ wire.up = EncodeWhitelist(cl.params.AllowedIPs)

(* ================= the handshake, client and server =================== *)

\* The addresses the client connects from.
Hosts ==
    { <<"1", "0", ".", "0", ".", "0", ".", "1">>,
      <<"1", "1", ".", "0", ".", "0", ".", "1">> }

\* The allowed_ips the server is configured with: none, a prefix, an address.
ServerAllowLists ==
    { <<>>,
      << <<"1", "0", ".", "0", ".", "0", ".", "0", "/", "8">> >>,
      << <<"1", "1", ".", "0", ".", "0", ".", "1">> >> }

\* The port range of the server the client talks to.
HandshakeRange == <<8080, 8080>>

HandshakeInit ==
    /\ srv = "accepting"
    /\ portRangeStart = HandshakeRange[1]
    /\ portRangeEnd = HandshakeRange[2]
    /\ forwards = {}
    /\ lock = 0
    /\ cs = [c \in Conns |-> InitConn]
    /\ bridges = InitBridges
    /\ grants = EmptyBag
    /\ allowedIPs \in ServerAllowLists
    /\ \E r \in {0, 8080, MaxPortNumber}, wl \in ClientWhitelists :
          cl = [NoClient EXCEPT !.pc = "start",
                                !.params = [BaseParams EXCEPT !.RemotePort = r,
                                                              !.AllowedIPs = wl]]
    /\ wire = NoWire
    /\ fwd = InitForwards
    /\ m = NoMatch

\* The wire after the server closed the connection.
ServerClosedConn(w) ==
    [w EXCEPT !.ch = IF @ \in {"none", "requested"} THEN "refused" ELSE @,
              !.upEOF = TRUE, !.downEOF = TRUE]

\* handleSSHConnection, lines 105-122, on the client's connection: the SSH
\* handshake, then the initial IP check. A peer that is not allowed makes the
\* function return, and the deferred sshConn.Close() and nc.Close() run.
ServeConn ==
    /\ srv = "accepting"
    /\ cs[1].pc = "none"
    /\ cl.connected
    /\ \E host \in Hosts :
          IF Len(allowedIPs) > 0 /\ ~isAllowed(host, allowedIPs)
          THEN /\ cs' = [cs EXCEPT ![1].pc = "closed", ![1].host = host]
               /\ wire' = ServerClosedConn(wire)
               /\ cl' = [cl EXCEPT !.connected = FALSE]
          ELSE /\ cs' = [cs EXCEPT ![1].pc = "chanloop", ![1].sshAlive = TRUE,
                                   ![1].admitted = TRUE, ![1].host = host]
               /\ UNCHANGED <<wire, cl>>
    /\ UNCHANGED <<srv, portRangeStart, portRangeEnd, forwards, lock, bridges, grants,
                   allowedIPs, fwd, m>>

\* handleSSHConnection, lines 124-135: the client's channel is taken from
\* chans and accepted, and handleChannel is called; a failed Accept is skipped.
ServeChannel ==
    /\ cs[1].pc = "chanloop"
    /\ wire.ch = "requested"
    /\ \E acceptOK \in BOOLEAN :
          IF acceptOK
          THEN /\ cs' = [cs EXCEPT ![1].pc = "handshake", ![1].chanCount = @ + 1]
               /\ wire' = [wire EXCEPT !.ch = "open"]
          ELSE /\ cs' = [cs EXCEPT ![1].chanCount = @ + 1]
               /\ wire' = [wire EXCEPT !.ch = "refused"]
    /\ UNCHANGED <<srv, portRangeStart, portRangeEnd, forwards, lock, bridges, grants,
                   allowedIPs, cl, fwd, m>>

\* handleChannel returns on an error of the handshake: its locals are gone
\* and the deferred channel.Close() runs.
HandshakeFailed(c) ==
    [InitConn EXCEPT !.pc = "chanloop", !.sshAlive = c.sshAlive, !.admitted = c.admitted,
                     !.chanCount = c.chanCount, !.host = c.host]

\* processHandshake, lines 316-324: the IP check and its code frame.
HsCheckIP ==
    /\ cs[1].pc = "handshake"
    /\ IF Len(allowedIPs) > 0 /\ ~isAllowed(cs[1].host, allowedIPs)
       THEN /\ cs' = [cs EXCEPT ![1] = HandshakeFailed(cs[1])]
            /\ wire' = [wire EXCEPT !.down = @ \o PutUint32(ToU32(ErrIPNotAllowed)),
                                    !.downEOF = TRUE]
       ELSE /\ cs' = [cs EXCEPT ![1].pc = "hs_count"]
            /\ wire' = [wire EXCEPT !.down = @ \o PutUint32(ToU32(ErrSuccess))]
    /\ UNCHANGED <<srv, portRangeStart, portRangeEnd, forwards, lock, bridges, grants,
                   allowedIPs, cl, fwd, m>>

\* io.ReadFull(rw, buf) for n bytes can return: the bytes are there, or the
\* client's end is closed.
CanReadUp(n) == Len(wire.up) >= n \/ wire.upEOF

\* processHandshake, lines 326-333: the count frame.
HsReadCount ==
    /\ cs[1].pc = "hs_count"
    /\ CanReadUp(4)
    /\ IF Len(wire.up) < 4
       THEN /\ cs' = [cs EXCEPT ![1] = HandshakeFailed(cs[1])]
            /\ wire' = [wire EXCEPT !.downEOF = TRUE]
       ELSE /\ cs' = [cs EXCEPT ![1].pc = "hs_entry", ![1].clientWL = <<>>,
                                ![1].count = Uint32(Take(wire.up, 4))]
            /\ wire' = [wire EXCEPT !.up = Drop(@, 4)]
    /\ UNCHANGED <<srv, portRangeStart, portRangeEnd, forwards, lock, bridges, grants,
                   allowedIPs, cl, fwd, m>>

\* Mutant: the loop over the entries is skipped.
EntriesLeftNever(c) == FALSE

\* i < count, count an int made of a uint32.
EntriesLeft(c) == c.count.hi = 1 \/ Len(c.clientWL) < c.count.lo

\* Mutant: the entry put in front of the list.
PrependEntry(wl, buf) == <<String(buf)>> \o wl

\* wl = append(wl, string(buf))
AppendEntry(wl, buf) == Append(wl, String(buf))

\* The length frame at the head of the bytes towards the server.
EntryLength == Uint32(Take(wire.up, 4)).lo

\* processHandshake, lines 334-344: one turn of the loop, the u32 length and
\* then that many bytes. Each read fails when the stream ends before it is
\* complete.
HsReadEntry ==
    /\ cs[1].pc = "hs_entry"
    /\ EntriesLeft(cs[1])
    /\ CanReadUp(4)
    /\ Len(wire.up) >= 4 => CanReadUp(4 + EntryLength)
    /\ IF Len(wire.up) < 4 \/ Len(wire.up) < 4 + EntryLength
       THEN /\ cs' = [cs EXCEPT ![1] = HandshakeFailed(cs[1])]
            /\ wire' = [wire EXCEPT !.downEOF = TRUE]
       ELSE /\ cs' = [cs EXCEPT ![1].clientWL =
                          AppendEntry(@, SubSeq(wire.up, 5, 4 + EntryLength))]
            /\ wire' = [wire EXCEPT !.up = Drop(@, 4 + EntryLength)]
    /\ UNCHANGED <<srv, portRangeStart, portRangeEnd, forwards, lock, bridges, grants,
                   allowedIPs, cl, fwd, m>>

\* processHandshake, lines 346-349, and handleChannel, lines 146-151: the
\* whitelist is confirmed and returned.
HsConfirm ==
    /\ cs[1].pc = "hs_entry"
    /\ ~EntriesLeft(cs[1])
    /\ cs' = [cs EXCEPT ![1].pc = "readport"]
    /\ wire' = [wire EXCEPT !.down = @ \o PutUint32(ToU32(ErrSuccess))]
    /\ UNCHANGED <<srv, portRangeStart, portRangeEnd, forwards, lock, bridges, grants,
                   allowedIPs, cl, fwd, m>>

\* handleChannel, lines 153-159: the requested port.
ReadRequestedPort ==
    /\ cs[1].pc = "readport"
    /\ CanReadUp(4)
    /\ IF Len(wire.up) < 4
       THEN /\ cs' = [cs EXCEPT ![1] = HandshakeFailed(cs[1])]
            /\ wire' = [wire EXCEPT !.downEOF = TRUE]
       ELSE /\ cs' = [cs EXCEPT ![1].pc = "assign", ![1].portRead = TRUE,
                                ![1].reqPort = Uint32(Take(wire.up, 4)).lo]
            /\ wire' = [wire EXCEPT !.up = Drop(@, 4)]
    /\ UNCHANGED <<srv, portRangeStart, portRangeEnd, forwards, lock, bridges, grants,
                   allowedIPs, cl, fwd, m>>

\* channel.Write(hb[:]) of lines 165, 175 and 183: the frame of the port
\* reply the server wrote arrives at the client.
WriteReply ==
    /\ cs[1].reply # <<>>
    /\ wire.sent = 0
    /\ wire' = [wire EXCEPT !.down = @ \o PutUint32(cs[1].reply[1]), !.sent = 1]
    /\ UNCHANGED <<serverVars, allowedIPs, cl, fwd, m>>

\* The server's steps on the client's connection.
HandshakeServerStep ==
    \/ ServeConn
    \/ ServeChannel
    \/ HsCheckIP
    \/ HsReadCount
    \/ HsReadEntry
    \/ HsConfirm
    \/ ReadRequestedPort
    \/ AssignEnter(1)
    \/ AssignCheck(1)
    \/ AssignStore(1)
    \/ AssignResult(1)
    \/ BindListener(1)
    \/ WriteReply

HandshakeNext ==
    \/ ClientStep
    \/ ConnectionLost
    \/ HandshakeServerStep

HandshakeSpec == HandshakeInit /\ [][HandshakeNext]_vars

(* ======================= claims on the handshake ====================== *)

\* The server refused the client's connection at the initial IP check.
RejectedByIP ==
    /\ Len(allowedIPs) > 0
    /\ cs[1].pc = "closed"
    /\ ~isAllowed(cs[1].host, allowedIPs)

\* C12: a client whose address the server's non-empty allowed_ips does not
\* admit ends with the error "server rejected IP", having read the IPNotAllowed
\* frame on its control channel.
C12_RejectedClientIsTold ==
    (RejectedByIP /\ cl.pc = "exit")
        => cl.err = ErrCode("server rejected IP", ToU32(ErrIPNotAllowed))

\* The SSH peer connects from an address outside the server's allowed_ips:
\* 11.0.0.1 with 10.0.0.0/8 allowed, or 10.0.0.1 with 11.0.0.1 allowed.
OutsidePeer ==
    \/ /\ cs[1].host = <<"1", "1", ".", "0", ".", "0", ".", "1">>
       /\ allowedIPs = << <<"1", "0", ".", "0", ".", "0", ".", "0", "/", "8">> >>
    \/ /\ cs[1].host = <<"1", "0", ".", "0", ".", "0", ".", "1">>
       /\ allowedIPs = << <<"1", "1", ".", "0", ".", "0", ".", "1">> >>

\* C33: an SSH peer whose address the server's non-empty allowed_ips does not
\* admit causes no port to be reserved and no listener to be bound, whatever
\* it opens and sends: its connection is closed and no handleChannel call is
\* made for it.
C33_OutsidePeerReservesNothing ==
    OutsidePeer =>
        /\ forwards = {}
        /\ cs[1].pc = "closed"
        /\ cs[1].chanCount = 0
        /\ \A c \in Conns : cs[c].ln = NoListener /\ cs[c].added = {} /\ ~cs[c].served

\* The peer asked for its control channel and was closed on.
C33_Witness ==
    /\ OutsidePeer
    /\ cs[1].pc = "closed"
    /\ wire.ch = "refused"
    /\ cl.pc = "exit"

\* The whitelist has been returned to handleChannel on the client's connection.
WhitelistReturned ==
    cs[1].pc \in {"readport", "assign", "check", "store", "assigned", "bind", "accept", "ret"}

\* C13: the whitelist processHandshake returns is the list the client
\* encoded: as many entries, in the same order, with the same bytes; and while
\* it is read it is a prefix of that list.
C13_WhitelistRoundTrip ==
    /\ WhitelistReturned => cs[1].clientWL = cl.params.AllowedIPs
    /\ cs[1].pc = "hs_entry" =>
          /\ Len(cs[1].clientWL) <= Len(cl.params.AllowedIPs)
          /\ cs[1].clientWL = Take(cl.params.AllowedIPs, Len(cs[1].clientWL))

\* The list of a long entry and an address was returned.
C13_Witness ==
    /\ WhitelistReturned
    /\ Len(cs[1].clientWL) = 2
    /\ Len(cs[1].clientWL[1]) > 256
    /\ cs[1].clientWL = cl.params.AllowedIPs

(* ======================== isAllowed, call by call ===================== *)

\* Entries of an allow-list, at most.
MaxEntries == 2

\* The candidates: 10.0.0.1, 10.0.1.1, 11.0.0.1, and texts that are no address:
\* the empty string, 10.0.0, 010.0.0.1, 256.0.0.1, host and 10.0.0.0/8.
MatchCandidates ==
    { <<"1", "0", ".", "0", ".", "0", ".", "1">>,
      <<"1", "0", ".", "0", ".", "1", ".", "1">>,
      <<"1", "1", ".", "0", ".", "0", ".", "1">>,
      <<>>,
      <<"1", "0", ".", "0", ".", "0">>,
      <<"0", "1", "0", ".", "0", ".", "0", ".", "1">>,
      <<"2", "5", "6", ".", "0", ".", "0", ".", "1">>,
      <<"h", "o", "s", "t">>,
      <<"1", "0", ".", "0", ".", "0", ".", "0", "/", "8">> }

\* The entries: the literals 10.0.0.1, host, 010.0.0.1 and the empty string; the
\* prefixes 10.0.0.0/8, 10.0.0.0/24, 10.0.0.1/32, 0.0.0.0/0 and 10.0.0.77/24; and
\* 10.0.0.0/33, host/8, 10.0.0.1/ and /24, which are no prefixes.
MatchEntries ==
    { <<"1", "0", ".", "0", ".", "0", ".", "1">>,
      <<"h", "o", "s", "t">>,
      <<"0", "1", "0", ".", "0", ".", "0", ".", "1">>,
      <<>>,
      <<"1", "0", ".", "0", ".", "0", ".", "0", "/", "8">>,
      <<"1", "0", ".", "0", ".", "0", ".", "0", "/", "2", "4">>,
      <<"1", "0", ".", "0", ".", "0", ".", "1", "/", "3", "2">>,
      <<"0", ".", "0", ".", "0", ".", "0", "/", "0">>,
      <<"1", "0", ".", "0", ".", "0", ".", "7", "7", "/", "2", "4">>,
      <<"1", "0", ".", "0", ".", "0", ".", "0", "/", "3", "3">>,
      <<"h", "o", "s", "t", "/", "8">>,
      <<"1", "0", ".", "0", ".", "0", ".", "1", "/">>,
      <<"/", "2", "4">> }

\* The allow-lists of up to MaxEntries entries.
MatchLists ==
    UNION { [1..n -> MatchEntries] : n \in 0..MaxEntries }

MatchInit ==
    /\ ServerIdle
    /\ cl = NoClient
    /\ wire = NoWire
    /\ fwd = InitForwards
    /\ \E ip \in MatchCandidates, allowed \in MatchLists :
          m = [pc |-> "call", ip |-> ip, allowed |-> allowed, result |-> FALSE]

\* isAllowed(ip, allowed) runs and returns.
IsAllowedReturn ==
    /\ m.pc = "call"
    /\ m' = [m EXCEPT !.pc = "done", !.result = isAllowed(m.ip, m.allowed)]
    /\ UNCHANGED <<serverVars, allowedIPs, cl, wire, fwd>>

MatchNext == IsAllowedReturn

MatchSpec == MatchInit /\ [][MatchNext]_vars

(* ======================== claims on isAllowed ========================= *)

\* The text is an address.
IsAddress(s) == ParseIP(s) # NoIP

\* The text is a prefix in CIDR notation.
IsCIDR(s) == ParseCIDR(s).ok

\* Entry a matches the candidate: a CIDR entry by containment of the
\* candidate's address, a literal entry by equality of the texts.
Matches(a, ip) ==
    IF ContainsSlash(a)
    THEN IsCIDR(a) /\ IsAddress(ip) /\ Contains(ParseCIDR(a), ParseIP(ip))
    ELSE a = ip

\* The list with its entries in the opposite order.
Reverse(q) == [i \in 1..Len(q) |-> q[Len(q) + 1 - i]]

\* C14: isAllowed admits every candidate on an empty allow-list; on a
\* non-empty one it admits a candidate exactly when some entry matches it, a
\* CIDR entry by containment and a literal entry by equality; the order of the
\* entries makes no difference.
C14_AdmitsIffSomeEntryMatches ==
    m.pc = "done" =>
        /\ Len(m.allowed) = 0 => m.result
        /\ Len(m.allowed) > 0 =>
              (m.result <=> \E i \in 1..Len(m.allowed) : Matches(m.allowed[i], m.ip))
        /\ isAllowed(m.ip, Reverse(m.allowed)) = m.result

\* A candidate was admitted by the second entry, a prefix, after a first
\* entry that does not match.
C14_Witness ==
    /\ m.pc = "done"
    /\ m.result
    /\ Len(m.allowed) = 2
    /\ ~Matches(m.allowed[1], m.ip)
    /\ ContainsSlash(m.allowed[2])
    /\ Matches(m.allowed[2], m.ip)

\* C15: on a non-empty allow-list isAllowed admits no candidate that is not
\* an address, and an entry that is neither an address nor a prefix admits no
\* candidate: whatever is admitted is matched by an entry that is valid.
C15_OnlyAddressesOnlyValidEntries ==
    (m.pc = "done" /\ Len(m.allowed) > 0 /\ m.result) =>
        /\ IsAddress(m.ip)
        /\ \E i \in 1..Len(m.allowed) :
              /\ IsAddress(m.allowed[i]) \/ IsCIDR(m.allowed[i])
              /\ Matches(m.allowed[i], m.ip)

(* ===================== bridges, server and client ===================== *)

\* The whitelists of the session: none; one address; a prefix; a name before
\* an address; 10.0.0.0/33, which is no prefix, before an address written with
\* a leading zero; a prefix that does not hold the address after it.
BridgeWhitelists ==
    { <<>>,
      << <<"1", "0", ".", "0", ".", "0", ".", "1">> >>,
      << <<"1", "0", ".", "0", ".", "0", ".", "0", "/", "8">> >>,
      << <<"h", "o", "s", "t">>, <<"1", "1", ".", "0", ".", "0", ".", "1">> >>,
      << <<"1", "0", ".", "0", ".", "0", ".", "0", "/", "3", "3">>,
         <<"0", "1", "0", ".", "0", ".", "0", ".", "1">> >>,
      << <<"1", "1", ".", "0", ".", "0", ".", "0", "/", "8">>,
         <<"1", "0", ".", "0", ".", "0", ".", "1">> >> }

\* handleChannel in its accept loop, lines 196-264, after the handshake of a
\* client that sent whitelist wl and asked for the port of the range.
ServingConn(wl) ==
    [InitConn EXCEPT !.pc = "accept", !.sshAlive = TRUE, !.admitted = TRUE,
                     !.chanCount = 1,
                     !.reqPort = HandshakeRange[1], !.port = HandshakeRange[1],
                     !.cand = HandshakeRange[1],
                     !.ln = [port |-> HandshakeRange[1], open |-> TRUE],
                     !.watcher = "waiting",
                     !.reply = <<ToU32(HandshakeRange[1])>>,
                     !.host = <<"1", "0", ".", "0", ".", "0", ".", "1">>,
                     !.clientWL = wl, !.count = ToU32(Len(wl)),
                     !.portRead = TRUE, !.added = {HandshakeRange[1]},
                     !.served = TRUE]

\* runSession in Connection.Wait(), line 198, with the handler goroutine of
\* lines 173-195 running.
ServedClient(wl) ==
    [NoClient EXCEPT !.pc = "wait",
                     !.params = [BaseParams EXCEPT !.RemotePort = HandshakeRange[1],
                                                   !.AllowedIPs = wl],
                     !.connected = TRUE, !.Active = TRUE,
                     !.AssignedPort = HandshakeRange[1],
                     !.handler = TRUE, !.configs = 1, !.dials = 1,
                     !.reply = <<ToU32(HandshakeRange[1])>>]

\* A session after its handshake: the server listens on the public port, the
\* client waits for forwarded channels.
BridgeInit ==
    /\ srv = "accepting"
    /\ portRangeStart = HandshakeRange[1]
    /\ portRangeEnd = HandshakeRange[2]
    /\ forwards = {HandshakeRange[1]}
    /\ lock = 0
    /\ grants = SetToBag({HandshakeRange[1]})
    /\ bridges = InitBridges
    /\ allowedIPs = <<>>
    /\ \E wl \in BridgeWhitelists :
          /\ cs = [c \in Conns |-> IF c = 1 THEN ServingConn(wl) ELSE InitConn]
          /\ cl = ServedClient(wl)
    /\ wire = [NoWire EXCEPT !.ch = "open", !.sent = 1]
    /\ fwd = InitForwards
    /\ m = NoMatch

\* runSession, lines 174-193, and handleForward, lines 202-204: the handler
\* goroutine accepts the forwarded channel the server opened and starts
\* handleForward on it.
ForwardAccept(k) ==
    /\ cl.handler
    /\ cl.Active
    /\ bridges[1][k].st = "copy"
    /\ fwd[k].st = "none"
    /\ fwd' = [fwd EXCEPT ![k].st = "dial"]
    /\ UNCHANGED <<serverVars, allowedIPs, cl, wire, m>>

\* handleForward, lines 206-214: net.Dial to the local service. On failure the
\* function returns and the deferred ch.Close() runs; else both copies start.
ForwardDial(k) ==
    /\ fwd[k].st = "dial"
    /\ \E ok \in BOOLEAN :
          IF ok
          THEN /\ fwd' = [fwd EXCEPT ![k] = [@ EXCEPT !.st = "copy", !.toLocal = "run",
                                                     !.toServer = "run", !.local = "idle"]]
               /\ UNCHANGED bridges
          ELSE /\ fwd' = [fwd EXCEPT ![k].st = "closed"]
               /\ bridges' = [bridges EXCEPT ![1][k].chEOF = TRUE, ![1][k].chClosed = TRUE]
    /\ UNCHANGED <<srv, portRangeStart, portRangeEnd, forwards, lock, cs, grants,
                   allowedIPs, cl, wire, m>>

\* handleForward, lines 215-220, io.Copy(localConn, ch): a read of the channel
\* returns. Data is written to the local connection, and the copy ends when
\* that write fails, which it can once the local service has closed; end of
\* file, after the server's CloseWrite or the loss of the SSH connection, ends
\* the copy. localConn.CloseRead() follows. With nothing to read the goroutine
\* stays blocked.
CopyToLocal(k) ==
    /\ fwd[k].st = "copy"
    /\ fwd[k].toLocal = "run"
    /\ bridges[1][k].chData \/ bridges[1][k].closeWrite \/ ~cs[1].sshAlive
    /\ IF bridges[1][k].chData
       THEN \E ok \in BOOLEAN :
               /\ ~ok => fwd[k].local = "closed"
               /\ bridges' = [bridges EXCEPT ![1][k].chData = FALSE]
               /\ fwd' = IF ok THEN fwd
                         ELSE [fwd EXCEPT ![k].toLocal = "done", ![k].readShut = TRUE]
       ELSE /\ fwd' = [fwd EXCEPT ![k].toLocal = "done", ![k].readShut = TRUE]
            /\ UNCHANGED bridges
    /\ UNCHANGED <<srv, portRangeStart, portRangeEnd, forwards, lock, cs, grants,
                   allowedIPs, cl, wire, m>>

\* handleForward, lines 221-226, io.Copy(ch, localConn): a read of the local
\* connection returns. Data is written to the channel, and the copy ends when
\* that write fails; end of file, after the local service closed or after
\* CloseRead, ends the copy. ch.CloseWrite() follows. With nothing to read the
\* goroutine stays blocked. After CloseRead a read returns end of file; bytes
\* that had arrived before are returned first or are dropped, as the
\* operating system has it.
CopyToServer(k) ==
    /\ fwd[k].st = "copy"
    /\ fwd[k].toServer = "run"
    /\ fwd[k].local \in {"sent", "closed"} \/ fwd[k].readShut
    /\ \E dropped \in BOOLEAN :
          /\ dropped => fwd[k].readShut
          /\ IF fwd[k].local = "sent" /\ ~dropped /\ cs[1].sshAlive
             THEN /\ fwd' = [fwd EXCEPT ![k].local = "idle"]
                  /\ bridges' = [bridges EXCEPT ![1][k].upData = TRUE]
             ELSE /\ fwd' = [fwd EXCEPT ![k].toServer = "done"]
                  /\ bridges' = [bridges EXCEPT ![1][k].chEOF = TRUE]
    /\ UNCHANGED <<srv, portRangeStart, portRangeEnd, forwards, lock, cs, grants,
                   allowedIPs, cl, wire, m>>

\* handleForward, lines 227-228 and the deferred calls of lines 211, 204 and
\* 203: wg.Wait() returns when both copies are done; localConn.Close(),
\* ActiveConnections.Done() and ch.Close() run.
ForwardClose(k) ==
    /\ fwd[k].st = "copy"
    /\ fwd[k].toLocal = "done"
    /\ fwd[k].toServer = "done"
    /\ fwd' = [fwd EXCEPT ![k] = [@ EXCEPT !.st = "closed", !.toLocal = "idle",
                                          !.toServer = "idle", !.local = "closed"]]
    /\ bridges' = [bridges EXCEPT ![1][k].chEOF = TRUE, ![1][k].chClosed = TRUE]
    /\ UNCHANGED <<srv, portRangeStart, portRangeEnd, forwards, lock, cs, grants,
                   allowedIPs, cl, wire, m>>

\* The local service sends data.
LocalSend(k) ==
    /\ fwd[k].st = "copy"
    /\ fwd[k].local = "idle"
    /\ fwd' = [fwd EXCEPT ![k].local = "sent"]
    /\ UNCHANGED <<serverVars, allowedIPs, cl, wire, m>>

\* The local service closes its connection.
LocalClose(k) ==
    /\ fwd[k].st = "copy"
    /\ fwd[k].local \in {"idle", "sent"}
    /\ fwd' = [fwd EXCEPT ![k].local = "closed"]
    /\ UNCHANGED <<serverVars, allowedIPs, cl, wire, m>>

\* The public peer shuts down its sending side and goes on reading.
PeerShutdown(k) ==
    /\ bridges[1][k].st \in {"open", "copy"}
    /\ bridges[1][k].peer \in {"idle", "sent"}
    /\ bridges' = [bridges EXCEPT ![1][k].peer = "halfclosed"]
    /\ UNCHANGED <<srv, portRangeStart, portRangeEnd, forwards, lock, cs, grants, restVars>>

\* The goroutines of the server's bridge k, lines 234-263.
BridgeServerStep(k) ==
    \/ BridgeOpenChannel(1, k)
    \/ CopyToClient(1, k)
    \/ CopyToService(1, k)
    \/ BridgeClose(1, k)

\* The goroutines of the client's handleForward for bridge k.
BridgeClientStep(k) ==
    \/ ForwardAccept(k)
    \/ ForwardDial(k)
    \/ CopyToLocal(k)
    \/ CopyToServer(k)
    \/ ForwardClose(k)

\* The public peer and the local service.
BridgeEndpointStep(k) ==
    \/ PeerSend(1, k)
    \/ PeerClose(1, k)
    \/ PeerShutdown(k)
    \/ LocalSend(k)
    \/ LocalClose(k)

BridgeNext ==
    \/ AcceptPeer(1)
    \/ \E k \in 1..MaxBridges : BridgeServerStep(k)
    \/ \E k \in 1..MaxBridges : BridgeClientStep(k)
    \/ \E k \in 1..MaxBridges : BridgeEndpointStep(k)

BridgeSpec == BridgeInit /\ [][BridgeNext]_vars

\* Every goroutine of the server and of the client that can take a step
\* takes one; nothing is asked of the public peer and the local service.
BridgeFairness ==
    \A k \in 1..MaxBridges :
        /\ WF_vars(BridgeOpenChannel(1, k))
        /\ WF_vars(CopyToClient(1, k))
        /\ WF_vars(CopyToService(1, k))
        /\ WF_vars(BridgeClose(1, k))
        /\ WF_vars(ForwardAccept(k))
        /\ WF_vars(ForwardDial(k))
        /\ WF_vars(CopyToLocal(k))
        /\ WF_vars(CopyToServer(k))
        /\ WF_vars(ForwardClose(k))

BridgeFairSpec == BridgeSpec /\ BridgeFairness

(* ========================= claims on bridges ========================== *)

\* C16: the server opens a data channel toward the client only for a public
\* connection whose source address the client's whitelist admits, decided as
\* isAllowed decides it, the empty whitelist admitting all; a peer that is not
\* admitted is closed with no channel opened, and the accept loop goes on.
C16_ChannelOnlyForAdmittedPeers ==
    /\ [](\A k \in 1..MaxBridges :
            LET b == bridges[1][k]
            IN /\ b.st \in {"open", "copy", "closed"} => isAllowed(b.addr, cs[1].clientWL)
               /\ b.st = "rejected" =>
                     /\ ~isAllowed(b.addr, cs[1].clientWL)
                     /\ b.peer = "closed"
                     /\ b.up = "idle" /\ b.down = "idle"
                     /\ ~b.chData /\ ~b.closeWrite
                     /\ fwd[k].st = "none")
    /\ [][\A k \in 1..MaxBridges :
            (bridges[1][k].st = "none" /\ bridges'[1][k].st = "rejected") =>
                (cs'[1].pc = "accept" /\ cs'[1].ln.open)]_vars

\* A peer was admitted by the second entry of a whitelist whose first entry
\* does not match it, and the client serves the channel opened for it.
C16_Witness ==
    /\ bridges[1][1].st = "copy"
    /\ fwd[1].st = "copy"
    /\ Len(cs[1].clientWL) = 2
    /\ ~Matches(cs[1].clientWL[1], bridges[1][1].addr)
    /\ Matches(cs[1].clientWL[2], bridges[1][1].addr)

\* Bridge k has ended on both sides: the server closed the public connection
\* and handleForward returned.
BridgeEnded(k) == bridges[1][k].st = "closed" /\ fwd[k].st = "closed"

\* C17: once the public peer or the local service of a bridge has closed its
\* connection, both copies on the server and both on the client finish and the
\* bridge ends, also when the other endpoint stays connected and sends
\* nothing: stated for the runs in which the endpoints stop sending.
C17_BridgeEndsWhenEitherEndCloses ==
    \A k \in 1..MaxBridges :
        <>[](bridges[1][k].peer # "sent" /\ fwd[k].local # "sent") =>
            ((/\ bridges[1][k].st = "copy"
              /\ fwd[k].st = "copy"
              /\ bridges[1][k].peer = "closed" \/ fwd[k].local = "closed")
                ~> BridgeEnded(k))

\* C28: the two directions of a bridge half-close independently: after the
\* public peer has shut down its sending side, the direction from the local
\* service to the public peer stays open, on the client and on the server,
\* until the local service closes.
C28_DirectionsCloseIndependently ==
    \A k \in 1..MaxBridges :
        (/\ cs[1].sshAlive
         /\ bridges[1][k].peer = "halfclosed"
         /\ fwd[k].st = "copy"
         /\ fwd[k].local \in {"idle", "sent"})
            => (fwd[k].toServer = "run" /\ bridges[1][k].down = "run")

(* ================ one session, handshake and bridges ================== *)

\* The client and the server from the dial on: the handshake, then the
\* accept loop of the session with its bridges.
SessionNext ==
    \/ HandshakeNext
    \/ AcceptPeer(1)
    \/ \E k \in 1..MaxBridges : BridgeServerStep(k)
    \/ \E k \in 1..MaxBridges : BridgeClientStep(k)
    \/ \E k \in 1..MaxBridges : BridgeEndpointStep(k)

\* A server with no allow-list or one address in it, and a client that asks
\* for the port of the range or for one outside it, with or without a
\* whitelist.
SessionInit ==
    /\ srv = "accepting"
    /\ portRangeStart = HandshakeRange[1]
    /\ portRangeEnd = HandshakeRange[2]
    /\ forwards = {}
    /\ lock = 0
    /\ cs = [c \in Conns |-> InitConn]
    /\ bridges = InitBridges
    /\ grants = EmptyBag
    /\ allowedIPs \in {<<>>, << <<"1", "1", ".", "0", ".", "0", ".", "1">> >>}
    /\ \E r \in {HandshakeRange[1], MaxPortNumber},
          wl \in {<<>>, << <<"1", "0", ".", "0", ".", "0", ".", "1">> >>} :
          cl = [NoClient EXCEPT !.pc = "start",
                                !.params = [BaseParams EXCEPT !.RemotePort = r,
                                                              !.AllowedIPs = wl]]
    /\ wire = NoWire
    /\ fwd = InitForwards
    /\ m = NoMatch

SessionSpec == SessionInit /\ [][SessionNext]_vars

\* The session has bound its listener and written a port reply without the
\* error bit.
ServerRepliedSuccess ==
    /\ cs[1].ln.port # NoListener.port
    /\ cs[1].reply # <<>>
    /\ ~HasErrMask(cs[1].reply[Len(cs[1].reply)])

\* runSession has read a port reply without the error bit.
ClientReadSuccess == cl.reply # <<>> /\ ~HasErrMask(cl.reply[1])

\* C29: the server accepts no public connection and opens no data channel for
\* a session before it has bound the listener and written the successful port
\* reply, and the client launches no bridge before it has read a successful
\* port reply.
C29_HandshakeBeforeBridges ==
    \A k \in 1..MaxBridges :
       /\ bridges[1][k].st # "none" => ServerRepliedSuccess
       /\ fwd[k].st # "none" => (ClientReadSuccess /\ ServerRepliedSuccess)

C29_Witness ==
    /\ bridges[1][1].st = "copy"
    /\ fwd[1].st = "copy"
    /\ cl.reply = cs[1].reply
    /\ wire.sent = 1

(* ================= processHandshake, called on its own ================ *)

\* The bytes a client can have sent when processHandshake reads: the encoding
\* of a whitelist, whole or cut anywhere.
HsInputs ==
    UNION { { Take(EncodeWhitelist(wl), n) : n \in 0..Len(EncodeWhitelist(wl)) } :
            wl \in ClientWhitelists }

\* processHandshake(rw, remoteHost, allowed) is called on a stream that holds
\* the client's bytes and then ends.
HsCallInit ==
    /\ srv = "accepting"
    /\ portRangeStart = HandshakeRange[1]
    /\ portRangeEnd = HandshakeRange[2]
    /\ forwards = {}
    /\ lock = 0
    /\ \E host \in Hosts :
          cs = [c \in Conns |->
                  IF c = 1
                  THEN [InitConn EXCEPT !.pc = "handshake", !.sshAlive = TRUE,
                                        !.chanCount = 1, !.host = host]
                  ELSE InitConn]
    /\ bridges = InitBridges
    /\ grants = EmptyBag
    /\ allowedIPs \in ServerAllowLists
    /\ cl = NoClient
    /\ \E input \in HsInputs :
          wire = [NoWire EXCEPT !.ch = "open", !.up = input, !.upEOF = TRUE]
    /\ fwd = InitForwards
    /\ m = NoMatch

HsCallNext ==
    \/ HsCheckIP
    \/ HsReadCount
    \/ HsReadEntry
    \/ HsConfirm

HsCallSpec == HsCallInit /\ [][HsCallNext]_vars

\* The frame of a handshake code.
CodeFrame(code) == PutUint32(ToU32(code))

\* The IP check of processHandshake refuses the remote host.
HsRefuses == Len(allowedIPs) > 0 /\ ~isAllowed(cs[1].host, allowedIPs)

\* The bytes processHandshake has read as the count and the entries, followed
\* by the bytes it has not read.
HsStream ==
    PutUint32(cs[1].count) \o EncodeEntries(cs[1].clientWL, 1) \o wire.up

\* C30: processHandshake writes the first Success before it reads anything,
\* writes the confirming Success only after the count and all the entries it
\* announces have been read completely, and returns from a failed read of the
\* count, of an entry length or of an entry body without writing the
\* confirmation; on IP rejection it writes IPNotAllowed first and reads nothing.
C30_HandshakeWritesInOrder ==
    /\ [](cs[1].pc = "chanloop" =>
             /\ wire.down \in {CodeFrame(ErrSuccess), CodeFrame(ErrIPNotAllowed)}
             /\ wire.down = CodeFrame(ErrIPNotAllowed) => wire.up \in HsInputs)
    /\ [](cs[1].pc = "readport" =>
             /\ wire.down = CodeFrame(ErrSuccess) \o CodeFrame(ErrSuccess)
             /\ cs[1].count.hi = 0
             /\ Len(cs[1].clientWL) = cs[1].count.lo
             /\ HsStream \in HsInputs)
    /\ [][ /\ wire'.up # wire.up =>
                (wire.down = CodeFrame(ErrSuccess) /\ wire'.down = wire.down)
           /\ cs[1].pc = "handshake" =>
                /\ wire'.up = wire.up
                /\ wire.down = <<>>
                /\ wire'.down = IF HsRefuses THEN CodeFrame(ErrIPNotAllowed)
                                 ELSE CodeFrame(ErrSuccess)
                /\ HsRefuses => cs'[1].pc = "chanloop"
           /\ (cs[1].pc # "handshake" /\ wire'.down # wire.down) =>
                /\ cs'[1].pc = "readport"
                /\ wire'.up = wire.up
           /\ (cs[1].pc # "handshake" /\ cs'[1].pc = "chanloop") =>
                /\ wire'.down = wire.down
                /\ \/ Len(wire.up) < 4
                   \/ Len(wire.up) < 4 + EntryLength
         ]_vars

C30_Witness ==
    /\ cs[1].pc = "readport"
    /\ Len(cs[1].clientWL) = 2
    /\ wire.up = <<>>
    /\ wire.down = CodeFrame(ErrSuccess) \o CodeFrame(ErrSuccess)

\* C38: every data channel the server opens for an admitted public
\* connection while the client session is alive is taken by the client: when
\* sshConn.OpenChannel is called with the connection up, the client has
\* installed its handler of "direct-tcpip" channels, and the call cannot be
\* refused for want of one.
C38_HandlerInstalledBeforeFirstChannel ==
    [][\A k \in 1..MaxBridges :
         (/\ bridges[1][k].st = "open"
          /\ bridges'[1][k].st # "open"
          /\ cs[1].sshAlive
          /\ cl.connected) => cl.handler]_vars

(* ============== a session that serves until it is ended =============== *)

\* The goroutine of a bridge has returned (deferred c.Close() and wg.Done())
\* and handleForward has returned or was never called: nothing refers to the
\* public connection any more.
BridgeForget(k) ==
    /\ bridges[1][k].st \in {"closed", "rejected"}
    /\ fwd[k].st \in {"none", "closed"}
    /\ bridges' = [bridges EXCEPT ![1][k] = NoBridge]
    /\ fwd' = [fwd EXCEPT ![k] = NoForward]
    /\ UNCHANGED <<srv, portRangeStart, portRangeEnd, forwards, lock, cs, grants,
                   allowedIPs, cl, wire, m>>

\* The ways the session of connection 1 ends: the SSH connection goes, the
\* watcher closes the listener, Accept fails, RELEASE runs.
SessionEndStep ==
    \/ SSHTerminate(1)
    \/ WatcherCloseListener(1)
    \/ WatcherCloseDone(1)
    \/ AcceptClosed(1)
    \/ AcceptError(1)
    \/ WaitBridges(1)
    \/ ReleaseLock(1)
    \/ ReleaseDelete(1)
    \/ HandleReturn(1)

ServeNext ==
    \/ BridgeNext
    \/ \E k \in 1..MaxBridges : BridgeForget(k)
    \/ SessionEndStep

\* A session after its handshake that accepts public connections one after
\* the other until it is ended.
ServeSpec == BridgeInit /\ [][ServeNext]_vars

\* C34: an error local to one bridge does not tear down the session. The
\* step in which the server fails to open the data channel closes the public
\* connection and ends that bridge goroutine; the step in which the client
\* fails to dial the local service closes that data channel; both leave the
\* session, its listener and the reserved ports as they were. The accept loop
\* is left only when Accept fails, the listener is closed only after the SSH
\* connection has ended or at return, and the port is deleted only in RELEASE.
C34_BridgeErrorsStayLocal ==
    /\ [][\A k \in 1..MaxBridges :
            (bridges[1][k].st = "open" /\ bridges'[1][k].st = "closed") =>
               /\ cs' = cs
               /\ forwards' = forwards
               /\ bridges'[1][k].peer = "closed"
               /\ fwd' = fwd]_vars
    /\ [][\A k \in 1..MaxBridges :
            (fwd[k].st = "dial" /\ fwd'[k].st = "closed") =>
               /\ cs' = cs
               /\ forwards' = forwards
               /\ bridges'[1][k].chClosed
               /\ bridges'[1][k].st = bridges[1][k].st]_vars
    /\ [][(cs[1].pc = "accept" /\ cs'[1].pc # "accept") =>
            (~cs[1].ln.open \/ cs'[1].acceptErr # "none")]_vars
    /\ [][(cs[1].ln.open /\ ~cs'[1].ln.open) =>
            (~cs[1].sshAlive \/ cs[1].pc = "ret")]_vars
    /\ [][(forwards # {} /\ forwards' = {}) => cs[1].pc = "rel_del"]_vars

\* The client failed to dial the local service for a public connection, and
\* the session still accepts: the connection is up, the listener open and the
\* port reserved.
C34_Witness ==
    /\ fwd[1].st = "closed"
    /\ fwd[1].local # "closed"
    /\ bridges[1][1].chClosed
    /\ cs[1].pc = "accept"
    /\ cs[1].sshAlive
    /\ cs[1].ln.open
    /\ cs[1].port \in forwards

(* ============ the handler of forwarded channels, on its own =========== *)

\* The server's request to open a "direct-tcpip" channel arrives while the
\* connection is up; the SSH library queues it on the channel that
\* HandleChannelOpen returned, where it stays readable after the connection
\* has shut down.
ChannelOpenArrives(k) ==
    /\ cl.handler
    /\ cl.connected
    /\ fwd[k].st = "none"
    /\ fwd' = [fwd EXCEPT ![k].st = "queued"]
    /\ UNCHANGED <<serverVars, allowedIPs, cl, wire, m>>

\* runSession, lines 174-193: one turn of the handler's loop. An inactive
\* session rejects the channel with "session closed"; else newCh.Accept() is
\* called, which fails once the connection has shut down and may fail before,
\* and after a successful Accept handleForward is started.
HandleChannelOpen(k) ==
    /\ cl.handler
    /\ fwd[k].st = "queued"
    /\ \E acceptOK \in BOOLEAN :
          /\ acceptOK => cl.connected
          /\ fwd' = [fwd EXCEPT ![k].st = IF ~cl.Active THEN "rejected"
                                          ELSE IF acceptOK THEN "dial"
                                          ELSE "accept error"]
    /\ UNCHANGED <<serverVars, allowedIPs, cl, wire, m>>

HandlerNext ==
    \/ ConnectionLost
    \/ SessionEnd
    \/ \E k \in 1..MaxBridges :
          \/ ChannelOpenArrives(k)
          \/ HandleChannelOpen(k)
          \/ ForwardDial(k)
          \/ CopyToLocal(k)
          \/ CopyToServer(k)
          \/ ForwardClose(k)
          \/ LocalSend(k)
          \/ LocalClose(k)
          \/ SSHTerminate(1)

\* A client in Connection.Wait() with its handler running, and what the
\* handler does with the channels the server asks for.
HandlerSpec == BridgeInit /\ [][HandlerNext]_vars

\* C36: once the SSH connection of a client session has terminated the
\* session is inactive, and every inbound channel its handler takes from then
\* on is rejected with "session closed"; no handleForward is started for it.
C36_TerminatedSessionRejectsChannels ==
    /\ []((cl.handler /\ ~cl.connected) => ~cl.Active)
    /\ [][\A k \in 1..MaxBridges :
            (~cl.connected /\ fwd[k].st = "queued" /\ fwd'[k].st # "queued") =>
               fwd'[k].st = "rejected"]_vars

====
